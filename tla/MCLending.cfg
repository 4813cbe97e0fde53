CONSTANTS
    U64Max = 40
    ONE = 100
    Users = {u1}
    Stakes = {}
    Pool = Pool
    Nobody = Nobody
    RecordRent = 3
    WalletRent = 2
    StakeMin = 5
    SolSupply = 16
    Deposits = {7}
    Burns = {2}
    StakeAmounts = {5}
    Donations = {2}
    Fees <- MCFees
    ProtocolFees <- MCProtocolFees
    Loans = {3}
    LoanFees <- MCLoanFees
    FlashRent = 2
    MaxRepays = 2
SPECIFICATION TxSpec
INVARIANTS TxTypeOK NoLoanOutlivesItsTransaction LoanWillBeRepaid BackedAtRest
PROPERTIES LendingKeepsVault
