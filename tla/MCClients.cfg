CONSTANTS
    U64Max = 60
    ONE = 1000
    Users = {u1}
    Stakes = {s1, s2}
    Pool = Pool
    Nobody = Nobody
    RecordRent = 2
    WalletRent = 1
    StakeMin = 4
    SolSupply = 27
    Deposits = {11}
    Burns = {}
    StakeAmounts = {5, 9}
    Donations = {5}
    Fees <- MCSchedules
    ProtocolFees <- MCNoProtocolFee
    Requests <- MCRequests
    NetworkFee = 1
    Balances = {20, 23}
SPECIFICATION PreviewsSpec
SYMMETRY MCSymmetry
PROPERTIES EstimateErrsKnowingly PreviewErrsKnowingly
