CONSTANTS
    U64Max = 40
    ONE = 100
    Users = {u1}
    Stakes = {s1}
    Pool = Pool
    Nobody = Nobody
    RecordRent = 3
    WalletRent = 2
    StakeMin = 5
    SolSupply = 22
    Deposits = {13}
    Burns = {}
    StakeAmounts = {5}
    Donations = {}
    Fees <- MCFees
    ProtocolFees <- MCProtocolFees
    Loans = {3}
    LoanFees <- MCLoanFees
    FlashRent = 2
    MaxRepays = 1
SPECIFICATION TxSpec
INVARIANTS IncomingIsRecorded
PROPERTIES LendingKeepsVault LoansNeverCheapenSwaps
