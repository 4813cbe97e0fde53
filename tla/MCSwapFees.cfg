CONSTANTS
    U64Max = 60
    ONE = 1000
    Users = {u1}
    Stakes = {s1, s2}
    Pool = Pool
    Nobody = Nobody
    RecordRent = 2
    WalletRent = 1
    StakeMin = 4
    SolSupply = 23
    Deposits = {11}
    Burns = {9}
    StakeAmounts = {5, 12}
    Donations = {}
    Fees <- MCSchedules
    ProtocolFees <- MCNoProtocolFee
SPECIFICATION Spec
SYMMETRY MCSymmetry
INVARIANTS IncomingIsRecorded
PROPERTIES ChargedBySchedule ChargedInRange QuotesFollowLiquidity VaultSpec
