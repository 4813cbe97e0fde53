CONSTANTS
    U64Max = 40
    ONE = 100
    Users = {u1}
    Stakes = {s1}
    Pool = Pool
    Nobody = Nobody
    RecordRent = 3
    WalletRent = 2
    StakeMin = 5
    SolSupply = 26
    Deposits = {0, 7}
    Burns = {2}
    StakeAmounts = {5, 9}
    Donations = {2}
    Fees <- MCFees
    ProtocolFees <- MCProtocolFees
SPECIFICATION FairSpec
INVARIANTS TypeOK IncomingIsRecorded RecordsControlled RecordsCovered SupplyBacked OwnedFits
PROPERTIES VaultSpec LastShareTakesAll TradersKeepTheirWorth BookSpec EventuallyReclaimed
