------------------------ MODULE AdministrationProofs ------------------------
(***************************************************************************)
(* Theorems about PoolAdmin, and about the commands of the CLI that run    *)
(* among other wallets (Commands), for every value of their constants.     *)
(***************************************************************************)
EXTENDS Commands, TLAPS

(* The fields of a transaction, by its type.                               *)
LEMMA TransactionFields ==
    ASSUME NEW t \in Transactions
    PROVE  /\ t.signer \in Wallets
           /\ t.type = "create_pool" =>
                 /\ t.authority \in Addresses /\ t.pool \in Pools
                 /\ t.fee_account \in Pools /\ t.pool_sol_reserves \in Pools
                 /\ t.lp_mint \in Mints /\ t.fee \in Fees
           /\ t.type = "set_fee" =>
                 /\ t.authority \in Addresses /\ t.pool \in Pools
                 /\ t.fee_account \in Pools /\ t.fee \in Fees
           /\ t.type = "set_fee_authority" =>
                 /\ t.authority \in Addresses /\ t.pool \in Pools
                 /\ t.new_fee_authority \in Addresses
           /\ t.type = "set_flash_loan_fee" =>
                 /\ t.authority \in Addresses /\ t.pool \in Pools
                 /\ t.flash_loan_fee_account \in Pools /\ t.fee_ratio \in FlashFees
           /\ t.type = "set_lp_token_metadata" =>
                 /\ t.authority \in Addresses /\ t.pool \in Pools
                 /\ t.pool_sol_reserves \in Pools /\ t.lp_mint \in Mints
                 /\ t.metadata \in Mints /\ t.data \in Data
           /\ t.type = "set_protocol_fee" =>
                 t.authority \in Addresses /\ t.terms \in Terms
  BY DEF Transactions

-----------------------------------------------------------------------------
(* What each transaction in flight is.                                     *)
LEMMA SentAreTransactions ==
    ASSUME AdminTypeOK, NEW t \in sent
    PROVE  t \in Transactions
  BY ProposedAssumption DEF AdminTypeOK

LEMMA TypeStep == AdminTypeOK /\ [Next]_vars => AdminTypeOK'
<1>1. SUFFICES ASSUME AdminTypeOK, [Next]_vars PROVE AdminTypeOK'
  OBVIOUS
<1>2. ASSUME NEW t \in Proposed, Sign(t) PROVE AdminTypeOK'
  BY <1>1, <1>2 DEF Sign, AdminTypeOK, poolVars, mintVars
<1>3. ASSUME NEW t \in sent, Land(t) PROVE AdminTypeOK'
  <2>1. t \in Transactions /\ sent' \subseteq Proposed
    BY <1>1, <1>3, SentAreTransactions DEF Land, AdminTypeOK
  <2>2. CASE t.type = "create_pool" /\ CreatePool(t)
    BY <1>1, <2>1, <2>2, TransactionFields DEF CreatePool, CanCreatePool, AdminTypeOK, Pool
  <2>3. CASE t.type = "set_fee" /\ SetFee(t)
    BY <1>1, <2>1, <2>3, TransactionFields DEF SetFee, CanSetFee, AdminTypeOK, mintVars
  <2>4. CASE t.type = "set_fee_authority" /\ SetFeeAuthority(t)
    BY <1>1, <2>1, <2>4, TransactionFields
       DEF SetFeeAuthority, FeeAuthoritySigned, AdminTypeOK, mintVars, Pool
  <2>5. CASE t.type = "set_flash_loan_fee" /\ SetFlashLoanFee(t)
    BY <1>1, <2>1, <2>5, TransactionFields DEF SetFlashLoanFee, CanSetFlashLoanFee, AdminTypeOK, mintVars
  <2>6. CASE t.type = "set_lp_token_metadata" /\ SetLpTokenMetadata(t)
    BY <1>1, <2>1, <2>6, TransactionFields
       DEF SetLpTokenMetadata, CanSetLpTokenMetadata, AdminTypeOK, poolVars, Metadata
  <2>7. CASE t.type = "init_protocol_fee" /\ InitProtocolFee(t)
    BY <1>1, <2>1, <2>7, SettingsAssumption
       DEF InitProtocolFee, AdminTypeOK, poolVars, mintVars
  <2>8. CASE t.type = "set_protocol_fee" /\ SetProtocolFee(t)
    BY <1>1, <2>1, <2>8, TransactionFields
       DEF SetProtocolFee, CanSetProtocolFee, AdminTypeOK, poolVars, mintVars
  <2> QED BY <1>3, <2>2, <2>3, <2>4, <2>5, <2>6, <2>7, <2>8 DEF Land, Execute
<1>4. ASSUME NEW t \in sent, Expire(t) PROVE AdminTypeOK'
  BY <1>1, <1>4 DEF Expire, AdminTypeOK, poolVars, mintVars
<1>5. ASSUME NEW m \in Mints, OthersMint(m) PROVE AdminTypeOK'
  <2>1. ASSUME NEW w \in Wallets, OthersCreateMint(m, w) PROVE AdminTypeOK'
    BY <1>1, <2>1 DEF OthersCreateMint, AdminTypeOK, poolVars
  <2>2. CASE OthersIssue(m)
    BY <1>1, <2>2 DEF OthersIssue, AdminTypeOK, poolVars
  <2>3. ASSUME NEW d \in Data, OthersDescribe(m, d) PROVE AdminTypeOK'
    BY <1>1, <2>3 DEF OthersDescribe, AdminTypeOK, poolVars, Metadata
  <2>4. ASSUME NEW p \in Pools, OthersHandOver(m, p) PROVE AdminTypeOK'
    BY <1>1, <2>4 DEF OthersHandOver, AdminTypeOK, poolVars
  <2> QED BY <1>5, <2>1, <2>2, <2>3, <2>4 DEF OthersMint
<1>6. CASE UNCHANGED vars
  BY <1>1, <1>6 DEF vars, poolVars, mintVars, AdminTypeOK
<1> QED BY <1>1, <1>2, <1>3, <1>4, <1>5, <1>6 DEF Next

(* The accounts keep their types, and every fee in force is valid.         *)
THEOREM AdminTypeCorrect == Spec => []AdminTypeOK
<1>1. Init => AdminTypeOK
  BY DEF Init, AdminTypeOK
<1> QED BY <1>1, TypeStep, PTL DEF Spec

-----------------------------------------------------------------------------
(* LpTokenIsThePools is not inductive: create_pool takes any mint address  *)
(* that is free, so a free address must have no history.                   *)
FreeMintsAreBlank ==
    \A m \in Mints : mintAuthority[m] = Nobody =>
        m \notin issued /\ metadata[m] = Nobody

IInv == AdminTypeOK /\ FreeMintsAreBlank /\ LpTokenIsThePools

(* No pool's reserves are a wallet, nor the absent account.                *)
LEMMA PoolsAreNoWallets == Wallets \cap Pools = {} /\ Nobody \notin Wallets \cup Pools
  BY AccountsAssumption DEF Addresses

(* A pool created on a free mint address is the only one with that mint.   *)
LEMMA CreatePoolStep ==
    ASSUME IInv, NEW t \in Transactions, t.type = "create_pool", CreatePool(t)
    PROVE  FreeMintsAreBlank' /\ LpTokenIsThePools'
<1> DEFINE m == t.lp_mint
           new == [fee_authority |-> t.authority, lp_mint |-> m]
<1>1. m \in Mints /\ t.pool \in Pools /\ t.pool_sol_reserves = t.pool
  BY TransactionFields DEF CreatePool, CanCreatePool
<1>2. /\ pools' = [pools EXCEPT ![t.pool] = new]
      /\ mintAuthority' = [mintAuthority EXCEPT ![m] = t.pool]
      /\ issued' = issued /\ metadata' = metadata
  BY <1>1 DEF CreatePool, CanCreatePool
<1>3. m \notin issued /\ metadata[m] = Nobody /\ mintAuthority[m] = Nobody
  BY <1>1 DEF CreatePool, CanCreatePool, IInv, FreeMintsAreBlank
<1>4. FreeMintsAreBlank'
  BY <1>1, <1>2, PoolsAreNoWallets DEF IInv, AdminTypeOK, FreeMintsAreBlank
<1>5. ASSUME NEW q \in Pools, pools[q] # Nobody
      PROVE  pools[q].lp_mint \in Mints \ {m}
  BY <1>3, <1>5, PoolsAreNoWallets DEF IInv, AdminTypeOK, LpTokenIsThePools, Pool
<1>6. ASSUME NEW q \in Pools, pools'[q] # Nobody
      PROVE  IF q = t.pool THEN pools'[q].lp_mint = m
             ELSE pools'[q] = pools[q] /\ pools'[q].lp_mint \in Mints \ {m}
  BY <1>1, <1>2, <1>5, <1>6 DEF IInv, AdminTypeOK
<1>7. LpTokenIsThePools'
  BY <1>1, <1>2, <1>3, <1>6 DEF IInv, AdminTypeOK, LpTokenIsThePools
<1> HIDE DEF m, new
<1> QED BY <1>4, <1>7

(* Authorities are handed over and metadata set without touching mints.    *)
LEMMA SetFeeAuthorityStep ==
    ASSUME IInv, NEW t \in Transactions, t.type = "set_fee_authority",
           SetFeeAuthority(t)
    PROVE  FreeMintsAreBlank' /\ LpTokenIsThePools'
<1>1. t.pool \in Pools /\ pools[t.pool] # Nobody /\ t.new_fee_authority \in Addresses
  BY TransactionFields DEF SetFeeAuthority, FeeAuthoritySigned
<1>2. UNCHANGED mintVars
  BY DEF SetFeeAuthority
<1>3. ASSUME NEW q \in Pools
      PROVE  /\ pools'[q] # Nobody <=> pools[q] # Nobody
             /\ pools[q] # Nobody => pools'[q].lp_mint = pools[q].lp_mint
  <2>1. CASE q = t.pool
    <3>1. pools[q] \in Pool
      BY <1>1, <2>1 DEF IInv, AdminTypeOK
    <3>2. pools'[q] = [pools[q] EXCEPT !.fee_authority = t.new_fee_authority]
      BY <1>1, <2>1 DEF SetFeeAuthority, IInv, AdminTypeOK
    <3>3. pools'[q] \in Pool /\ pools'[q].lp_mint = pools[q].lp_mint
      BY <1>1, <3>1, <3>2 DEF Pool
    <3> QED BY <1>1, <2>1, <3>3, AccountsAssumption
  <2>2. CASE q # t.pool
    BY <1>1, <2>2 DEF SetFeeAuthority, IInv, AdminTypeOK
  <2> QED BY <2>1, <2>2
<1>4. FreeMintsAreBlank'
  BY <1>2 DEF IInv, FreeMintsAreBlank, mintVars
<1>5. LpTokenIsThePools'
  BY <1>2, <1>3 DEF IInv, LpTokenIsThePools, mintVars
<1> QED BY <1>4, <1>5

LEMMA SetLpTokenMetadataStep ==
    ASSUME IInv, NEW t \in Transactions, t.type = "set_lp_token_metadata",
           SetLpTokenMetadata(t)
    PROVE  FreeMintsAreBlank' /\ LpTokenIsThePools'
<1> DEFINE m == t.lp_mint
<1>1. /\ t.pool \in Pools /\ pools[t.pool] # Nobody /\ m = pools[t.pool].lp_mint
      /\ m \in Mints /\ t.metadata = m /\ t.pool_sol_reserves = t.pool
  BY TransactionFields
     DEF SetLpTokenMetadata, CanSetLpTokenMetadata, FeeAuthoritySigned, MetaplexAllows
<1>2. /\ metadata' = [metadata EXCEPT ![m] =
                         [data |-> t.data, update_authority |-> t.pool]]
      /\ UNCHANGED <<pools, mintAuthority, issued>>
  BY <1>1 DEF SetLpTokenMetadata, CanSetLpTokenMetadata, poolVars
<1>3. mintAuthority[m] = t.pool
  BY <1>1 DEF IInv, LpTokenIsThePools
<1>4. FreeMintsAreBlank'
  BY <1>1, <1>2, <1>3, PoolsAreNoWallets DEF IInv, AdminTypeOK, FreeMintsAreBlank
<1>5. ASSUME NEW q \in Pools \ {t.pool}, pools[q] # Nobody
      PROVE  pools[q].lp_mint # m
  BY <1>1, <1>5 DEF IInv, LpTokenIsThePools
<1>6. LpTokenIsThePools'
  BY <1>1, <1>2, <1>5 DEF IInv, AdminTypeOK, LpTokenIsThePools
<1> QED BY <1>4, <1>6

(* The owners of other mints cannot touch a mint whose authority is a pool.*)
LEMMA OthersMintStep ==
    ASSUME IInv, NEW m \in Mints, OthersMint(m)
    PROVE  FreeMintsAreBlank' /\ LpTokenIsThePools'
<1>1. ASSUME NEW p \in Pools, pools[p] # Nobody
      PROVE  mintAuthority[pools[p].lp_mint] = p /\ p \notin Wallets \cup {Nobody}
  BY <1>1, PoolsAreNoWallets DEF IInv, LpTokenIsThePools
<1>2. ASSUME NEW w \in Wallets, OthersCreateMint(m, w)
      PROVE  FreeMintsAreBlank' /\ LpTokenIsThePools'
  BY <1>1, <1>2, PoolsAreNoWallets
     DEF OthersCreateMint, IInv, AdminTypeOK, FreeMintsAreBlank, LpTokenIsThePools, poolVars
<1>3. CASE OthersIssue(m)
  BY <1>1, <1>3, PoolsAreNoWallets
     DEF OthersIssue, IInv, AdminTypeOK, FreeMintsAreBlank, LpTokenIsThePools, poolVars
<1>4. ASSUME NEW d \in Data, OthersDescribe(m, d)
      PROVE  FreeMintsAreBlank' /\ LpTokenIsThePools'
  BY <1>1, <1>4, PoolsAreNoWallets
     DEF OthersDescribe, IInv, AdminTypeOK, FreeMintsAreBlank, LpTokenIsThePools, poolVars
<1>5. ASSUME NEW q \in Pools, OthersHandOver(m, q)
      PROVE  FreeMintsAreBlank' /\ LpTokenIsThePools'
  BY <1>1, <1>5, PoolsAreNoWallets
     DEF OthersHandOver, IInv, AdminTypeOK, FreeMintsAreBlank, LpTokenIsThePools, poolVars
<1> QED BY <1>2, <1>3, <1>4, <1>5 DEF OthersMint

LEMMA UntouchedStep ==
    ASSUME IInv, UNCHANGED <<pools, mintVars>>
    PROVE  FreeMintsAreBlank' /\ LpTokenIsThePools'
  BY DEF IInv, FreeMintsAreBlank, LpTokenIsThePools, mintVars

LEMMA InvStep == IInv /\ [Next]_vars => IInv'
<1>1. SUFFICES ASSUME IInv, [Next]_vars PROVE FreeMintsAreBlank' /\ LpTokenIsThePools'
  BY TypeStep DEF IInv
<1>2. ASSUME NEW t \in sent, Land(t)
      PROVE  FreeMintsAreBlank' /\ LpTokenIsThePools'
  <2>1. t \in Transactions
    BY <1>1, SentAreTransactions DEF IInv
  <2>2. CASE SetFee(t) \/ SetFlashLoanFee(t) \/ InitProtocolFee(t) \/ SetProtocolFee(t)
    BY <1>1, <2>2, UntouchedStep
       DEF SetFee, CanSetFee, SetFlashLoanFee, CanSetFlashLoanFee, InitProtocolFee, SetProtocolFee, CanSetProtocolFee, poolVars
  <2> QED BY <1>1, <1>2, <2>1, <2>2, CreatePoolStep, SetFeeAuthorityStep,
             SetLpTokenMetadataStep DEF Land, Execute
<1>3. ASSUME NEW m \in Mints, OthersMint(m)
      PROVE  FreeMintsAreBlank' /\ LpTokenIsThePools'
  BY <1>1, <1>3, OthersMintStep
<1>4. CASE (\E t \in Proposed : Sign(t)) \/ (\E t \in sent : Expire(t)) \/ UNCHANGED vars
  BY <1>1, <1>4, UntouchedStep DEF Sign, Expire, vars, poolVars
<1> QED BY <1>1, <1>2, <1>3, <1>4 DEF Next

LEMMA InvCorrect == Spec => []IInv
<1>1. Init => IInv
  BY DEF Init, IInv, AdminTypeOK, FreeMintsAreBlank, LpTokenIsThePools
<1> QED BY <1>1, InvStep, PTL DEF Spec

(* Each pool's LP token is its own: no other pool uses the mint, nobody    *)
(* else ever issued a token of it, or can, or can describe it.             *)
THEOREM LpTokensAreThePools == Spec => []LpTokenIsThePools
  BY InvCorrect, PTL DEF IInv

-----------------------------------------------------------------------------
(* The refinement.  CarriedOut says of one transaction what Custody allows *)
(* a request to do: the charter it is about takes the values it gives and  *)
(* no other charter moves, by the hand of the present or the first holder. *)
CharterItems == {"lp_mint", "fee", "flash_fee", "description", "terms"} \cup {"holder"}

CarriedOut(t) ==
    /\ ThingOf(t) \in Things
    /\ \A y \in Things \ {ThingOf(t)} : Charter(y)' = Charter(y)
    /\ Charter(ThingOf(t))' =
          [i \in CharterItems |-> IF i \in DOMAIN ChangeOf(t) THEN ChangeOf(t)[i]
                                  ELSE Charter(ThingOf(t))[i]]
    /\ Charter(ThingOf(t))'["holder"] \in Addresses
    /\ \/ Charter(ThingOf(t))["holder"] = t.signer
       \/ /\ Charter(ThingOf(t))["holder"] = Nobody
          /\ Charter(ThingOf(t))'["holder"] =
                IF ThingOf(t) = Protocol THEN DefaultTerms.authority ELSE t.signer

(* The charter of a pool whose accounts did not change.                    *)
LEMMA SamePoolCharter ==
    ASSUME NEW p \in Pools, pools'[p] = pools[p], fees'[p] = fees[p],
           flashFees'[p] = flashFees[p],
           pools[p] # Nobody => metadata'[pools[p].lp_mint] = metadata[pools[p].lp_mint]
    PROVE  Charter(p)' = Charter(p)
<1>1. Token(p)' = Token(p)
  BY DEF Token
<1>2. PoolCharter(p)' = PoolCharter(p)
  BY <1>1 DEF PoolCharter
<1> QED BY <1>2, AccountsAssumption DEF Charter

LEMMA SameProtocolCharter ==
    ASSUME protocolFee' = protocolFee
    PROVE  Charter(Protocol)' = Charter(Protocol)
  BY DEF Charter, ProtocolCharter

LEMMA CreatePoolCarriedOut ==
    ASSUME IInv, NEW t \in Transactions, t.type = "create_pool", CreatePool(t)
    PROVE  CarriedOut(t)
<1> DEFINE p == t.pool
           new == [fee_authority |-> t.signer, lp_mint |-> t.lp_mint]
<1>1. /\ p \in Pools /\ p # Protocol /\ t.lp_mint \in Mints /\ t.signer \in Wallets
      /\ pools[p] = Nobody /\ fees[p] = Nobody
      /\ pools' = [pools EXCEPT ![p] = new]
      /\ fees' = [fees EXCEPT ![p] = t.fee]
      /\ UNCHANGED <<flashFees, metadata, protocolFee>>
  BY TransactionFields, AccountsAssumption DEF CreatePool, CanCreatePool, Signed
<1>2. ThingOf(t) = p
      /\ ChangeOf(t) = [holder |-> t.signer, lp_mint |-> t.lp_mint, fee |-> t.fee]
  BY DEF ThingOf, ChangeOf, CreatePool, CanCreatePool
<1>3. metadata[t.lp_mint] = Nobody
  BY <1>1 DEF CreatePool, CanCreatePool, IInv, FreeMintsAreBlank
<1>4. new # Nobody
  BY <1>1, AccountsAssumption DEF Pool, Addresses
<1>5. pools'[p] = new /\ fees'[p] = t.fee
  BY <1>1 DEF IInv, AdminTypeOK
<1>6. Token(p) = Nobody /\ Token(p)' = Nobody
  BY <1>1, <1>3, <1>4, <1>5 DEF Token
<1>7. Charter(p) = [holder |-> Nobody, lp_mint |-> Nobody, fee |-> fees[p],
                    flash_fee |-> flashFees[p], description |-> Nobody,
                    terms |-> Nobody]
  BY <1>1, <1>6 DEF Charter, PoolCharter
<1>8. Charter(p)' = [holder |-> t.signer, lp_mint |-> t.lp_mint, fee |-> t.fee,
                     flash_fee |-> flashFees[p], description |-> Nobody,
                     terms |-> Nobody]
  BY <1>1, <1>4, <1>5, <1>6 DEF Charter, PoolCharter
<1>9. ASSUME NEW y \in Things \ {p} PROVE Charter(y)' = Charter(y)
  <2>1. CASE y \in Pools
    BY <1>1, <1>9, <2>1, SamePoolCharter DEF IInv, AdminTypeOK
  <2> QED BY <1>1, <1>9, <2>1, SameProtocolCharter DEF Things
<1> HIDE DEF p, new
<1>10. Charter(p)' = [i \in CharterItems |-> IF i \in DOMAIN ChangeOf(t)
                                             THEN ChangeOf(t)[i] ELSE Charter(p)[i]]
  BY <1>2, <1>7, <1>8 DEF CharterItems
<1>11. Charter(p)["holder"] = Nobody /\ Charter(p)'["holder"] = t.signer
  BY <1>7, <1>8
<1> QED BY <1>1, <1>2, <1>9, <1>10, <1>11 DEF CarriedOut, Things, Addresses

(* The pool an authority signed for, and its charter.                      *)
LEMMA SignedCharter ==
    ASSUME AdminTypeOK, NEW t \in Transactions, t.pool \in Pools, FeeAuthoritySigned(t)
    PROVE  /\ pools[t.pool] \in Pool /\ t.pool # Protocol
           /\ Charter(t.pool) = PoolCharter(t.pool)
           /\ Charter(t.pool)["holder"] = t.signer
           /\ t.signer \in Addresses
  BY TransactionFields, AccountsAssumption
     DEF AdminTypeOK, FeeAuthoritySigned, Signed, Charter, PoolCharter, Addresses

LEMMA SetFeeCarriedOut ==
    ASSUME IInv, NEW t \in Transactions, t.type = "set_fee", SetFee(t)
    PROVE  CarriedOut(t)
<1> DEFINE p == t.pool
<1>1. /\ p \in Pools /\ FeeAuthoritySigned(t) /\ t.fee_account = p
      /\ fees' = [fees EXCEPT ![p] = t.fee]
      /\ UNCHANGED <<pools, flashFees, metadata, protocolFee>>
  BY TransactionFields DEF SetFee, CanSetFee, mintVars
<1>2. ThingOf(t) = p /\ ChangeOf(t) = [fee |-> t.fee]
  BY <1>1 DEF ThingOf, ChangeOf
<1>3. /\ p # Protocol /\ Charter(p) = PoolCharter(p)
      /\ Charter(p)["holder"] = t.signer /\ t.signer \in Addresses
  BY <1>1, SignedCharter DEF IInv
<1>4. fees'[p] = t.fee
  BY <1>1 DEF IInv, AdminTypeOK
<1>5. Charter(p)' = [PoolCharter(p) EXCEPT !.fee = t.fee]
  BY <1>1, <1>3, <1>4 DEF Charter, PoolCharter, Token
<1>6. ASSUME NEW y \in Things \ {p} PROVE Charter(y)' = Charter(y)
  <2>1. CASE y \in Pools
    BY <1>1, <1>6, <2>1, SamePoolCharter DEF IInv, AdminTypeOK
  <2> QED BY <1>1, <1>6, <2>1, SameProtocolCharter DEF Things
<1> HIDE DEF p
<1>7. Charter(p)' = [i \in CharterItems |-> IF i \in DOMAIN ChangeOf(t)
                                            THEN ChangeOf(t)[i] ELSE Charter(p)[i]]
  BY <1>2, <1>3, <1>5 DEF CharterItems, PoolCharter
<1>8. Charter(p)'["holder"] = t.signer
  BY <1>3, <1>5 DEF PoolCharter
<1> QED BY <1>1, <1>2, <1>3, <1>6, <1>7, <1>8 DEF CarriedOut, Things

LEMMA SetFlashLoanFeeCarriedOut ==
    ASSUME IInv, NEW t \in Transactions, t.type = "set_flash_loan_fee",
           SetFlashLoanFee(t)
    PROVE  CarriedOut(t)
<1> DEFINE p == t.pool
<1>1. /\ p \in Pools /\ FeeAuthoritySigned(t) /\ t.flash_loan_fee_account = p
      /\ flashFees' = [flashFees EXCEPT ![p] = t.fee_ratio]
      /\ UNCHANGED <<pools, fees, metadata, protocolFee>>
  BY TransactionFields DEF SetFlashLoanFee, CanSetFlashLoanFee, mintVars
<1>2. ThingOf(t) = p /\ ChangeOf(t) = [flash_fee |-> t.fee_ratio]
  BY <1>1 DEF ThingOf, ChangeOf
<1>3. /\ p # Protocol /\ Charter(p) = PoolCharter(p)
      /\ Charter(p)["holder"] = t.signer /\ t.signer \in Addresses
  BY <1>1, SignedCharter DEF IInv
<1>4. flashFees'[p] = t.fee_ratio
  BY <1>1 DEF IInv, AdminTypeOK
<1>5. Charter(p)' = [PoolCharter(p) EXCEPT !.flash_fee = t.fee_ratio]
  BY <1>1, <1>3, <1>4 DEF Charter, PoolCharter, Token
<1>6. ASSUME NEW y \in Things \ {p} PROVE Charter(y)' = Charter(y)
  <2>1. CASE y \in Pools
    BY <1>1, <1>6, <2>1, SamePoolCharter DEF IInv, AdminTypeOK
  <2> QED BY <1>1, <1>6, <2>1, SameProtocolCharter DEF Things
<1> HIDE DEF p
<1>7. Charter(p)' = [i \in CharterItems |-> IF i \in DOMAIN ChangeOf(t)
                                            THEN ChangeOf(t)[i] ELSE Charter(p)[i]]
  BY <1>2, <1>3, <1>5 DEF CharterItems, PoolCharter
<1>8. Charter(p)'["holder"] = t.signer
  BY <1>3, <1>5 DEF PoolCharter
<1> QED BY <1>1, <1>2, <1>3, <1>6, <1>7, <1>8 DEF CarriedOut, Things

LEMMA SetFeeAuthorityCarriedOut ==
    ASSUME IInv, NEW t \in Transactions, t.type = "set_fee_authority",
           SetFeeAuthority(t)
    PROVE  CarriedOut(t)
<1> DEFINE p == t.pool
           new == [pools[p] EXCEPT !.fee_authority = t.new_fee_authority]
<1>1. /\ p \in Pools /\ FeeAuthoritySigned(t) /\ t.new_fee_authority \in Addresses
      /\ pools' = [pools EXCEPT ![p] = new]
      /\ UNCHANGED <<fees, flashFees, metadata, protocolFee>>
  BY TransactionFields DEF SetFeeAuthority, mintVars, IInv, AdminTypeOK
<1>2. ThingOf(t) = p /\ ChangeOf(t) = [holder |-> t.new_fee_authority]
  BY <1>1 DEF ThingOf, ChangeOf
<1>3. /\ p # Protocol /\ Charter(p) = PoolCharter(p) /\ pools[p] \in Pool
      /\ Charter(p)["holder"] = t.signer
  BY <1>1, SignedCharter DEF IInv
<1>4. /\ pools'[p] = new /\ new \in Pool /\ new.lp_mint = pools[p].lp_mint
      /\ new.fee_authority = t.new_fee_authority
  BY <1>1, <1>3 DEF IInv, AdminTypeOK, Pool
<1>5. pools[p] # Nobody /\ pools'[p] # Nobody
  BY <1>3, <1>4, AccountsAssumption
<1>6. Token(p)' = Token(p)
  BY <1>1, <1>4, <1>5 DEF Token
<1>7. Charter(p)' = [PoolCharter(p) EXCEPT !.holder = t.new_fee_authority]
  <2> HIDE DEF new
  <2>1. Charter(p)' = PoolCharter(p)'
    BY <1>3 DEF Charter
  <2>2. PoolCharter(p) =
           [holder |-> pools[p].fee_authority, lp_mint |-> pools[p].lp_mint,
            fee |-> fees[p], flash_fee |-> flashFees[p], terms |-> Nobody,
            description |-> IF Token(p) = Nobody THEN Nobody ELSE Token(p).data]
    BY <1>5 DEF PoolCharter
  <2>3. PoolCharter(p)' =
           [holder |-> t.new_fee_authority, lp_mint |-> pools[p].lp_mint,
            fee |-> fees[p], flash_fee |-> flashFees[p], terms |-> Nobody,
            description |-> IF Token(p) = Nobody THEN Nobody ELSE Token(p).data]
    BY <1>1, <1>4, <1>5, <1>6 DEF PoolCharter
  <2> QED BY <2>1, <2>2, <2>3
<1>8. ASSUME NEW y \in Things \ {p} PROVE Charter(y)' = Charter(y)
  <2>1. CASE y \in Pools
    BY <1>1, <1>8, <2>1, SamePoolCharter DEF IInv, AdminTypeOK
  <2> QED BY <1>1, <1>8, <2>1, SameProtocolCharter DEF Things
<1> HIDE DEF p, new
<1>9. Charter(p)' = [i \in CharterItems |-> IF i \in DOMAIN ChangeOf(t)
                                            THEN ChangeOf(t)[i] ELSE Charter(p)[i]]
  BY <1>2, <1>3, <1>7 DEF CharterItems, PoolCharter
<1>10. Charter(p)'["holder"] = t.new_fee_authority
  BY <1>7 DEF PoolCharter
<1> QED BY <1>1, <1>2, <1>3, <1>8, <1>9, <1>10 DEF CarriedOut, Things

(* Pools have different LP tokens, so only one description changes.        *)
LEMMA SetLpTokenMetadataCarriedOut ==
    ASSUME IInv, NEW t \in Transactions, t.type = "set_lp_token_metadata",
           SetLpTokenMetadata(t)
    PROVE  CarriedOut(t)
<1> DEFINE p == t.pool
           m == t.lp_mint
           new == [data |-> t.data, update_authority |-> p]
<1>1. /\ p \in Pools /\ FeeAuthoritySigned(t) /\ m \in Mints /\ t.data \in Data
      /\ pools[p] # Nobody /\ m = pools[p].lp_mint
      /\ metadata' = [metadata EXCEPT ![m] = new]
      /\ UNCHANGED <<poolVars, protocolFee>>
  BY TransactionFields DEF SetLpTokenMetadata, CanSetLpTokenMetadata, MetaplexAllows, FeeAuthoritySigned
<1>2. ThingOf(t) = p /\ ChangeOf(t) = [description |-> t.data]
  BY <1>1 DEF ThingOf, ChangeOf
<1>3. /\ p # Protocol /\ Charter(p) = PoolCharter(p)
      /\ Charter(p)["holder"] = t.signer /\ t.signer \in Addresses
  BY <1>1, SignedCharter DEF IInv
<1>4. metadata'[m] = new /\ new.data = t.data /\ new # Nobody
  BY <1>1, AccountsAssumption DEF IInv, AdminTypeOK, Metadata
<1>5. Token(p)' = new
  BY <1>1, <1>4 DEF Token, poolVars
<1>6. Charter(p)' = [PoolCharter(p) EXCEPT !.description = t.data]
  BY <1>1, <1>3, <1>4, <1>5 DEF Charter, PoolCharter, poolVars
<1>7. ASSUME NEW y \in Things \ {p} PROVE Charter(y)' = Charter(y)
  <2>1. CASE y \in Pools
    <3>1. pools[y] # Nobody => pools[y].lp_mint # m
      BY <1>1, <1>7, <2>1 DEF IInv, LpTokenIsThePools
    <3>2. pools[y] # Nobody => metadata'[pools[y].lp_mint] = metadata[pools[y].lp_mint]
      BY <1>1, <3>1, <2>1 DEF IInv, AdminTypeOK, Pool
    <3> QED BY <1>1, <2>1, <3>2, SamePoolCharter DEF poolVars
  <2> QED BY <1>1, <1>7, <2>1, SameProtocolCharter DEF Things
<1> HIDE DEF p, m, new
<1>8. Charter(p)' = [i \in CharterItems |-> IF i \in DOMAIN ChangeOf(t)
                                            THEN ChangeOf(t)[i] ELSE Charter(p)[i]]
  BY <1>2, <1>3, <1>6 DEF CharterItems, PoolCharter
<1>9. Charter(p)'["holder"] = t.signer
  BY <1>3, <1>6 DEF PoolCharter
<1> QED BY <1>1, <1>2, <1>3, <1>7, <1>8, <1>9 DEF CarriedOut, Things

(* The protocol fee account: founded with the defaults, replaced whole.    *)
LEMMA ProtocolFeeCarriedOut ==
    ASSUME IInv, NEW t \in Transactions,
           \/ t.type = "init_protocol_fee" /\ InitProtocolFee(t)
           \/ t.type = "set_protocol_fee" /\ SetProtocolFee(t)
    PROVE  CarriedOut(t)
<1> DEFINE new == IF t.type = "init_protocol_fee" THEN DefaultTerms ELSE t.terms
<1>1. /\ new \in Terms /\ new \in ProtocolFeeTerms /\ new # Nobody
      /\ new.authority \in Addresses
      /\ protocolFee' = new /\ UNCHANGED <<pools, fees, flashFees, metadata>>
  BY TransactionFields, SettingsAssumption
     DEF InitProtocolFee, SetProtocolFee, CanSetProtocolFee, poolVars, mintVars, ProtocolFeeTerms
<1>2. /\ ThingOf(t) = Protocol
      /\ ChangeOf(t) = [holder |-> new.authority, terms |-> new]
  BY DEF ThingOf, ChangeOf
<1>3. /\ Charter(Protocol) = ProtocolCharter
      /\ Charter(Protocol)' = [holder |-> new.authority, lp_mint |-> Nobody,
                               fee |-> Nobody, flash_fee |-> Nobody,
                               description |-> Nobody, terms |-> new]
  BY <1>1 DEF Charter, ProtocolCharter
<1>4. ASSUME NEW y \in Things \ {Protocol} PROVE Charter(y)' = Charter(y)
  BY <1>1, <1>4, SamePoolCharter DEF Things
<1>5. Charter(Protocol)["holder"] = IF t.type = "init_protocol_fee" THEN Nobody
                                    ELSE t.signer
  BY <1>3, SettingsAssumption
     DEF ProtocolCharter, InitProtocolFee, SetProtocolFee, CanSetProtocolFee, Signed
<1> HIDE DEF new
<1>6. Charter(Protocol)' =
          [i \in CharterItems |-> IF i \in DOMAIN ChangeOf(t)
                                  THEN ChangeOf(t)[i] ELSE Charter(Protocol)[i]]
  BY <1>2, <1>3 DEF CharterItems, ProtocolCharter
<1>7. Charter(Protocol)'["holder"] = new.authority
  BY <1>3
<1>8. t.type = "init_protocol_fee" => new.authority = DefaultTerms.authority
  BY DEF new
<1> QED BY <1>1, <1>2, <1>4, <1>5, <1>6, <1>7, <1>8 DEF CarriedOut, Things

(* What lands is the signer's request, carried out.                        *)
LEMMA LandCarriedOut ==
    ASSUME IInv, NEW t \in sent, Land(t)
    PROVE  CarriedOut(t)
<1>1. t \in Transactions
  BY SentAreTransactions DEF IInv
<1> QED BY <1>1, CreatePoolCarriedOut, SetFeeCarriedOut, SetFeeAuthorityCarriedOut,
           SetFlashLoanFeeCarriedOut, SetLpTokenMetadataCarriedOut,
           ProtocolFeeCarriedOut DEF Land, Execute

(* The other mints are in no charter.                                      *)
LEMMA OthersMintKeepsCharters ==
    ASSUME IInv, NEW m \in Mints, OthersMint(m), NEW x \in Things
    PROVE  Charter(x)' = Charter(x)
<1>1. UNCHANGED <<poolVars, protocolFee>>
  BY DEF OthersMint, OthersCreateMint, OthersIssue, OthersDescribe, OthersHandOver
<1>2. \/ metadata' = metadata
      \/ /\ mintAuthority[m] \in Wallets
         /\ \E d \in Data : metadata' =
               [metadata EXCEPT ![m] = [data |-> d, update_authority |-> mintAuthority[m]]]
  BY DEF OthersMint, OthersCreateMint, OthersIssue, OthersDescribe, OthersHandOver
<1>3. CASE x \in Pools
  <2>1. pools[x] # Nobody => pools[x].lp_mint \in Mints /\ mintAuthority[pools[x].lp_mint] = x
    BY <1>3 DEF IInv, AdminTypeOK, LpTokenIsThePools, Pool
  <2>2. pools[x] # Nobody => metadata'[pools[x].lp_mint] = metadata[pools[x].lp_mint]
    BY <1>2, <1>3, <2>1, PoolsAreNoWallets DEF IInv, AdminTypeOK
  <2> QED BY <1>1, <1>3, <2>2, SamePoolCharter DEF poolVars
<1> QED BY <1>1, <1>3, SameProtocolCharter DEF Things

(* Custody's definitions in the terms of this module.                      *)
Charters == [x \in Things |-> Charter(x)]
Consents == {ConsentOf(t) : t \in sent}

LEMMA InitIsCustodys == Init => Custodian!Init
<1>1. SUFFICES ASSUME Init PROVE Charters \in [Things -> [CharterItems -> {Nobody}]]
  BY <1>1 DEF Init, Custodian!Init, Charters, CharterItems
<1>2. ASSUME NEW p \in Pools
      PROVE  PoolCharter(p) = [holder |-> Nobody, lp_mint |-> Nobody, fee |-> Nobody,
                 flash_fee |-> Nobody, description |-> Nobody, terms |-> Nobody]
  BY <1>1, <1>2 DEF Init, PoolCharter, Token
<1>3. ProtocolCharter = [holder |-> Nobody, lp_mint |-> Nobody, fee |-> Nobody,
                 flash_fee |-> Nobody, description |-> Nobody, terms |-> Nobody]
  BY <1>1 DEF Init, ProtocolCharter
<1>4. ASSUME NEW x \in Things PROVE Charter(x) \in [CharterItems -> {Nobody}]
  BY <1>2, <1>3, <1>4 DEF Charter, Things, CharterItems
<1> QED BY <1>4 DEF Charters

(* Unchanged charters are a stutter, or a request signed or given up.      *)
LEMMA ChartersKept ==
    ASSUME \A x \in Things : Charter(x)' = Charter(x),
           sent \subseteq sent' \/ sent' \subseteq sent
    PROVE  Custodian!Next
<1>1. Charters' = Charters
  BY DEF Charters
<1>2. Consents \subseteq Consents' \/ Consents' \subseteq Consents
  BY DEF Consents, ConsentOf, ThingOf, ChangeOf
<1> QED BY <1>1, <1>2
        DEF Custodian!Next, Custodian!Consent, Custodian!Lapse, Charters, Consents

LEMMA LandIsCustodys ==
    ASSUME IInv, NEW t \in sent, Land(t)
    PROVE  Custodian!Next
<1> DEFINE c == ConsentOf(t)
           x == ThingOf(t)
<1>1. CarriedOut(t)
  BY LandCarriedOut
<1>2. c \in Consents /\ Consents' \subseteq Consents
  BY DEF Consents, ConsentOf, ThingOf, ChangeOf, Land
<1>3. c.thing = x /\ c.by = t.signer /\ c.change = ChangeOf(t) /\ x \in Things
  BY <1>1 DEF ConsentOf, CarriedOut
<1>4. Custodian!Amended(c) =
          [i \in CharterItems |-> IF i \in DOMAIN ChangeOf(t) THEN ChangeOf(t)[i]
                                  ELSE Charter(x)[i]]
  BY <1>3 DEF Custodian!Amended, CharterItems
<1>5. Charter(x)' = Custodian!Amended(c)
  BY <1>1, <1>4 DEF CarriedOut
<1>6. Charters' = [Charters EXCEPT ![x] = Custodian!Amended(c)]
  BY <1>1, <1>3, <1>5 DEF CarriedOut, Charters
<1>7. Custodian!CarryOut(c)
  BY <1>1, <1>2, <1>3, <1>5, <1>6 DEF CarriedOut, Custodian!CarryOut, Charters, Consents
<1>8. CASE Charter(x)["holder"] = t.signer
  BY <1>2, <1>3, <1>7, <1>8 DEF Custodian!Next, Custodian!Amend, Consents
<1>9. CASE /\ Charter(x)["holder"] = Nobody
           /\ Charter(x)'["holder"] = IF x = Protocol THEN DefaultTerms.authority
                                      ELSE t.signer
  <2>1. DefaultTerms.authority # Nobody
    BY SettingsAssumption, AccountsAssumption DEF ProtocolFeeTerms
  <2>2. Custodian!FirstHolder(c) = IF x = Protocol THEN DefaultTerms.authority
                                   ELSE t.signer
    BY <1>3, <2>1 DEF Custodian!FirstHolder
  <2>3. Custodian!Found(c)
    BY <1>3, <1>5, <1>7, <1>9, <2>2 DEF Custodian!Found
  <2> QED BY <1>2, <2>3 DEF Custodian!Next, Consents
<1> QED BY <1>1, <1>8, <1>9 DEF CarriedOut

LEMMA StepIsCustodys ==
    IInv /\ [Next]_vars => [Custodian!Next]_(Custodian!vars)
<1>1. SUFFICES ASSUME IInv, [Next]_vars PROVE Custodian!Next
  OBVIOUS
<1>2. ASSUME NEW t \in sent, Land(t) PROVE Custodian!Next
  BY <1>1, <1>2, LandIsCustodys
<1>3. ASSUME NEW m \in Mints, OthersMint(m) PROVE Custodian!Next
  <2>1. sent' = sent
    BY <1>3 DEF OthersMint, OthersCreateMint, OthersIssue, OthersDescribe, OthersHandOver
  <2> QED BY <1>1, <1>3, <2>1, OthersMintKeepsCharters, ChartersKept
<1>4. CASE (\E t \in Proposed : Sign(t)) \/ (\E t \in sent : Expire(t)) \/ UNCHANGED vars
  <2>1. UNCHANGED <<poolVars, mintVars, protocolFee>>
        /\ (sent \subseteq sent' \/ sent' \subseteq sent)
    BY <1>4 DEF Sign, Expire, vars
  <2>2. ASSUME NEW x \in Things PROVE Charter(x)' = Charter(x)
    BY <2>1, <2>2, SamePoolCharter, SameProtocolCharter DEF Things, poolVars, mintVars
  <2> QED BY <2>1, <2>2, ChartersKept
<1> QED BY <1>1, <1>2, <1>3, <1>4 DEF Next

(* The program keeps custody: charters change only by a request for that   *)
(* very account, signed by whoever holds it when it is carried out.        *)
THEOREM ImplementsCustody == Spec => CustodySpec
<1>1. Init => Custodian!Init
  BY InitIsCustodys
<1> QED BY <1>1, StepIsCustodys, InvCorrect, PTL DEF Spec, CustodySpec, Custodian!Spec

-----------------------------------------------------------------------------
(* The commands, run by any number of operators among other wallets, do to *)
(* the accounts of PoolAdmin nothing that is not one of its transactions.  *)
(* What is proved of PoolAdmin holds with them.                            *)

(* A command signs one of the proposed transactions.                       *)
LEMMA CommandsSign ==
    ASSUME NEW w, Command(w)
    PROVE  \E t \in Proposed : Sign(t)
<1>1. CASE \E p \in Pools, m \in Mints, file \in Files :
               CreatePoolCommand(w, p, m, file)
  BY <1>1 DEF CreatePoolCommand, SendTx
<1>2. CASE \E p \in Pools, file \in Files : SetFeeCommand(w, p, file)
  BY <1>2 DEF SetFeeCommand, SendTx
<1>3. CASE \E p \in Pools, new \in Addresses : SetFeeAuthorityCommand(w, p, new)
  BY <1>3 DEF SetFeeAuthorityCommand, SendTx
<1>4. CASE \E p \in Pools : SetFlashLoanFeeCommand(w, p)
  BY <1>4 DEF SetFlashLoanFeeCommand, SendTx
<1>5. CASE \E p \in Pools, d \in Data : SetLpTokenMetadataCommand(w, p, d)
  BY <1>5 DEF SetLpTokenMetadataCommand, SendTx
<1>6. CASE InitProtocolFeeCommand(w)
  BY <1>6 DEF InitProtocolFeeCommand, SendTx
<1> QED BY <1>1, <1>2, <1>3, <1>4, <1>5, <1>6 DEF Command

(* Whatever the operators and everybody else do, it is a behaviour of the  *)
(* administration as PoolAdmin describes it.                               *)
THEOREM CommandsAdminister == CommandSpec => Spec
<1>1. [CommandNext]_vars => [Next]_vars
  <2> SUFFICES ASSUME [CommandNext]_vars PROVE [Next]_vars
    OBVIOUS
  <2>1. CASE \E w \in Operators : Command(w)
    BY <2>1, CommandsSign DEF Next
  <2>2. CASE DryRun \/ UNCHANGED vars
    BY <2>2 DEF DryRun
  <2>3. CASE \E t \in Proposed : t.signer \notin Operators /\ Sign(t)
    BY <2>3 DEF Next
  <2>4. CASE \E t \in sent : Land(t) \/ Expire(t)
    BY <2>4 DEF Next
  <2>5. CASE \E m \in Mints : OthersMint(m) /\ mintAuthority'[m] \notin Operators
    BY <2>5 DEF Next
  <2> QED BY <2>1, <2>2, <2>3, <2>4, <2>5 DEF CommandNext
<1> QED BY <1>1, PTL DEF CommandSpec, Spec

(* Hence, with the CLI in use, the accounts stay well formed, LP tokens    *)
(* stay their pools' own, and settings stay in the custody of their        *)
(* holders.                                                                *)
THEOREM CommandsKeepCustody ==
    CommandSpec => []AdminTypeOK /\ []LpTokenIsThePools /\ CustodySpec
BY CommandsAdminister, AdminTypeCorrect, LpTokensAreThePools, ImplementsCustody

-----------------------------------------------------------------------------
(* What files say.  The conversion is exact as long as the numbers fit:    *)
(* beyond 19 decimal places the power of ten wraps around.                 *)

FilesFit ==
    \A file \in Files : \A d \in FileNumbers(file) :
        PowerOf10[d.places] \in U64 /\ (d.places = 0 => d.digits <= U64Max)

LEMMA PowerOf10Zero == PowerOf10[0] = 1
<1>1. PowerOf10 = [n \in Nat |-> IF n = 0 THEN 1 ELSE 10 * PowerOf10[n - 1]]
  BY DEF PowerOf10
<1> QED BY <1>1

LEMMA NumberIsExact ==
    ASSUME NEW d \in Decimal, PowerOf10[d.places] \in U64,
           d.places = 0 => d.digits <= U64Max,
           NEW r \in NumberToPositiveRational(d)
    PROVE  Equals(r, d)
<1>1. /\ d.digits \in Nat /\ d.places \in Nat /\ U64Max \in Nat
      /\ PowerOf10[d.places] \in 0 .. U64Max
  BY U64MaxAssumption DEF NumberToPositiveRational, Decimal, U64
<1>2. CASE d.places = 0
  BY <1>1, <1>2, PowerOf10Zero DEF NumberToPositiveRational, WholeNumber, Equals
<1>3. CASE d.places # 0
  <2>1. r = [num |-> d.digits, denom |-> Scale(d.places)]
    BY <1>1, <1>3 DEF NumberToPositiveRational
  <2>2. \A x \in 0 .. U64Max : x % (U64Max + 1) = x
    BY <1>1
  <2>3. Scale(d.places) = PowerOf10[d.places]
    BY <1>1, <2>2 DEF Scale
  <2> QED BY <2>1, <2>3 DEF Equals
<1> QED BY <1>2, <1>3

LEMMA ConversionIsExact ==
    ASSUME FilesFit, NEW file \in Files, NEW f \in ConvertFee(file)
    PROVE  IsFiled(f, file)
<1>1. /\ file.kind \in {"Flat", "LiquidityLinear"} /\ FileNumbers(file) \subseteq Decimal
      /\ \A d \in FileNumbers(file) : \A r \in NumberToPositiveRational(d) : Equals(r, d)
  BY FilesAssumption, NumberIsExact DEF FilesFit
<1>2. CASE file.kind = "Flat"
  <2>1. PICK r \in NumberToPositiveRational(file.ratio) : f = Flat(r)
    BY <1>2 DEF ConvertFee
  <2>2. Equals(r, file.ratio)
    BY <1>1, <1>2 DEF FileNumbers
  <2> QED BY <1>2, <2>1, <2>2 DEF IsFiled, Flat
<1>3. CASE file.kind = "LiquidityLinear"
  <2>1. PICK max \in NumberToPositiveRational(file.max_liq_remaining),
             zero \in NumberToPositiveRational(file.zero_liq_remaining) :
          f = LiquidityLinear(max, zero)
    BY <1>3 DEF ConvertFee
  <2>2. Equals(max, file.max_liq_remaining) /\ Equals(zero, file.zero_liq_remaining)
    BY <1>1, <1>3 DEF FileNumbers
  <2> QED BY <1>3, <2>1, <2>2 DEF IsFiled, LiquidityLinear
<1> QED BY <1>1, <1>2, <1>3

(* Every transaction of an operator that is in flight carries a filed fee. *)
FiledInFlight ==
    \A t \in sent :
        t.signer \in Operators /\ t.type \in {"create_pool", "set_fee"} =>
            \E file \in Files : IsFiled(t.fee, file)

LEMMA CommandsFile ==
    ASSUME FilesFit, FiledInFlight, NEW w \in Operators, Command(w)
    PROVE  FiledInFlight'
<1>1. ASSUME NEW p \in Pools, NEW m \in Mints, NEW file \in Files,
             CreatePoolCommand(w, p, m, file)
      PROVE  FiledInFlight'
  BY <1>1, ConversionIsExact DEF CreatePoolCommand, SendTx, Sign, FiledInFlight
<1>2. ASSUME NEW p \in Pools, NEW file \in Files, SetFeeCommand(w, p, file)
      PROVE  FiledInFlight'
  BY <1>2, ConversionIsExact DEF SetFeeCommand, SendTx, Sign, FiledInFlight
<1>3. ASSUME NEW p \in Pools, NEW new \in Addresses, SetFeeAuthorityCommand(w, p, new)
      PROVE  FiledInFlight'
  BY <1>3 DEF SetFeeAuthorityCommand, SendTx, Sign, FiledInFlight
<1>4. ASSUME NEW p \in Pools, SetFlashLoanFeeCommand(w, p)
      PROVE  FiledInFlight'
  BY <1>4 DEF SetFlashLoanFeeCommand, SendTx, Sign, FiledInFlight
<1>5. ASSUME NEW p \in Pools, NEW d \in Data, SetLpTokenMetadataCommand(w, p, d)
      PROVE  FiledInFlight'
  BY <1>5 DEF SetLpTokenMetadataCommand, SendTx, Sign, FiledInFlight
<1>6. CASE InitProtocolFeeCommand(w)
  BY <1>6 DEF InitProtocolFeeCommand, SendTx, Sign, FiledInFlight
<1> QED BY <1>1, <1>2, <1>3, <1>4, <1>5, <1>6 DEF Command

LEMMA FiledStep ==
    ASSUME FilesFit, FiledInFlight, [CommandNext]_vars
    PROVE  FiledInFlight'
<1>1. CASE \E w \in Operators : Command(w)
  BY <1>1, CommandsFile
<1>2. CASE DryRun \/ UNCHANGED vars
  BY <1>2 DEF DryRun, vars, FiledInFlight
<1>3. CASE \E t \in Proposed : t.signer \notin Operators /\ Sign(t)
  BY <1>3 DEF Sign, FiledInFlight
<1>4. CASE \E t \in sent : Land(t) \/ Expire(t)
  BY <1>4 DEF Land, Expire, FiledInFlight
<1>5. CASE \E m \in Mints : OthersMint(m) /\ mintAuthority'[m] \notin Operators
  BY <1>5
  DEF OthersMint, OthersCreateMint, OthersIssue, OthersDescribe, OthersHandOver, FiledInFlight
<1> QED BY <1>1, <1>2, <1>3, <1>4, <1>5 DEF CommandNext

(* A fee changes when a transaction lands, and the one it then belongs to  *)
(* has signed it.                                                          *)
LEMMA FeesStep ==
    ASSUME AdminTypeOK, FiledInFlight, CommandNext,
           NEW p \in Pools, fees'[p] # fees[p], pools'[p].fee_authority \in Operators
    PROVE  \E file \in Files : IsFiled(fees'[p], file)
<1>1. ASSUME NEW t \in sent, Land(t)
      PROVE  \E file \in Files : IsFiled(fees'[p], file)
  <2>1. t \in Transactions
    BY SentAreTransactions
  <2>2. CASE t.type = "create_pool" /\ CreatePool(t)
    <3>1. t.pool = p /\ fees'[p] = t.fee /\ pools'[p].fee_authority = t.signer
      BY <2>1, <2>2, TransactionFields DEF CreatePool, CanCreatePool, Signed, AdminTypeOK
    <3> QED BY <2>2, <3>1 DEF FiledInFlight
  <2>3. CASE t.type = "set_fee" /\ SetFee(t)
    <3>1. t.pool = p /\ fees'[p] = t.fee /\ pools'[p].fee_authority = t.signer
      BY <2>1, <2>3, TransactionFields DEF SetFee, CanSetFee, FeeAuthoritySigned, Signed, AdminTypeOK
    <3> QED BY <2>3, <3>1 DEF FiledInFlight
  <2> QED
    BY <1>1, <2>2, <2>3
    DEF Land, Execute, SetFeeAuthority, SetFlashLoanFee, CanSetFlashLoanFee, SetLpTokenMetadata, CanSetLpTokenMetadata,
        InitProtocolFee, SetProtocolFee, CanSetProtocolFee, poolVars
<1>2. ASSUME NEW t \in Proposed, Sign(t) PROVE FALSE
  BY <1>2 DEF Sign, poolVars
<1>3. CASE \E w \in Operators : Command(w)
  BY <1>2, <1>3, CommandsSign
<1>4. ASSUME NEW m \in Mints, OthersMint(m) PROVE FALSE
  BY <1>4
  DEF OthersMint, OthersCreateMint, OthersIssue, OthersDescribe, OthersHandOver, poolVars
<1>5. ASSUME NEW t \in sent, Expire(t) PROVE FALSE
  BY <1>5 DEF Expire, poolVars
<1>6. CASE DryRun
  BY <1>6 DEF DryRun, vars, poolVars
<1> QED BY <1>1, <1>2, <1>3, <1>4, <1>5, <1>6 DEF CommandNext

(* The fee of an operator's pool is what a file says, whatever others      *)
(* sign and whenever it lands, for all files whose numbers fit.            *)
THEOREM FeesAreFiledCorrect == FilesFit /\ CommandSpec => FeesAreFiled
<1> SUFFICES ASSUME FilesFit PROVE CommandSpec => FeesAreFiled
  OBVIOUS
<1>1. Init => FiledInFlight
  BY DEF Init, FiledInFlight
<1>2. FiledInFlight /\ [CommandNext]_vars => FiledInFlight'
  BY FiledStep
<1> DEFINE Filed ==
      \A p \in Pools :
          fees'[p] # fees[p] /\ pools'[p].fee_authority \in Operators =>
              \E file \in Files : IsFiled(fees'[p], file)
<1>3. AdminTypeOK /\ FiledInFlight /\ [CommandNext]_vars => [Filed]_vars
  BY FeesStep
<1>4. FeesAreFiled <=> [][Filed]_vars
  BY DEF FeesAreFiled
<1> HIDE DEF Filed
<1> QED BY <1>1, <1>2, <1>3, <1>4, CommandsKeepCustody, PTL DEF CommandSpec

-----------------------------------------------------------------------------
(* What overtakes a transaction that a node accepted.  What its checks ask *)
(* of the transaction itself is true for ever, and of the accounts what    *)
(* the administration never undoes, but for the two things in Overtaken.   *)

(* What the transaction of a command keeps, whatever lands before it.      *)
Formed(t) ==
    /\ t.type = "create_pool" =>
          /\ Signed(t) /\ ValidFee(t.fee)
          /\ t.pool_sol_reserves = t.pool /\ t.fee_account = t.pool
    /\ t.type \in {"set_fee", "set_fee_authority", "set_flash_loan_fee",
                   "set_lp_token_metadata"} =>
          Signed(t) /\ pools[t.pool] # Nobody
    /\ t.type = "set_fee" => t.fee_account = t.pool /\ ValidFee(t.fee)
    /\ t.type = "set_flash_loan_fee" =>
          t.flash_loan_fee_account = t.pool /\ Validate(t.fee_ratio)
    /\ t.type = "set_lp_token_metadata" =>
          /\ t.lp_mint = pools[t.pool].lp_mint /\ t.metadata = t.lp_mint
          /\ t.pool_sol_reserves = t.pool
    /\ t.type # "set_protocol_fee"

FormedInFlight == \A t \in sent : t.signer \in Operators => Formed(t)

(* A pool and its fee account are founded together.                        *)
PoolsHaveFees == \A p \in Pools : pools[p] = Nobody <=> fees[p] = Nobody

LEMMA PoolsHaveFeesStep ==
    ASSUME AdminTypeOK, PoolsHaveFees, [CommandNext]_vars
    PROVE  PoolsHaveFees'
<1>1. ASSUME NEW t \in sent, Land(t) PROVE PoolsHaveFees'
  <2>1. t \in Transactions
    BY SentAreTransactions
  <2>2. CASE t.type = "create_pool" /\ CreatePool(t)
    BY <2>1, <2>2, TransactionFields, AccountsAssumption, SettingsAssumption
    DEF CreatePool, CanCreatePool, AdminTypeOK, PoolsHaveFees, Pool
  <2>3. CASE t.type = "set_fee" /\ SetFee(t)
    BY <2>1, <2>3, TransactionFields, SettingsAssumption
    DEF SetFee, CanSetFee, AdminTypeOK, PoolsHaveFees
  <2>4. CASE t.type = "set_fee_authority" /\ SetFeeAuthority(t)
    <3>1. /\ t.pool \in Pools /\ pools[t.pool] \in Pool
          /\ [pools[t.pool] EXCEPT !.fee_authority = t.new_fee_authority] \in Pool
      BY <2>1, <2>4, TransactionFields
      DEF SetFeeAuthority, FeeAuthoritySigned, AdminTypeOK, Pool
    <3>2. pools[t.pool] # Nobody /\ fees' = fees
          /\ pools' = [pools EXCEPT ![t.pool] =
                          [pools[t.pool] EXCEPT !.fee_authority = t.new_fee_authority]]
      BY <2>4 DEF SetFeeAuthority, FeeAuthoritySigned
    <3> QED BY <3>1, <3>2, AccountsAssumption DEF AdminTypeOK, PoolsHaveFees
  <2> QED BY <1>1, <2>2, <2>3, <2>4
    DEF Land, Execute, SetFlashLoanFee, SetLpTokenMetadata, InitProtocolFee, SetProtocolFee,
        poolVars, PoolsHaveFees
<1>2. CASE UNCHANGED poolVars
  BY <1>2 DEF poolVars, PoolsHaveFees
<1>3. (\E w \in Operators : Command(w)) => UNCHANGED poolVars
  BY CommandsSign DEF Sign
<1>4. \A m \in Mints : OthersMint(m) => UNCHANGED poolVars
  BY DEF OthersMint, OthersCreateMint, OthersIssue, OthersDescribe, OthersHandOver
<1> QED BY <1>1, <1>2, <1>3, <1>4 DEF CommandNext, DryRun, Sign, Expire, vars

(* A pool stays founded, with the mint it was founded with.                *)
LEMMA PoolsStay ==
    ASSUME AdminTypeOK, [CommandNext]_vars, NEW p \in Pools, pools[p] # Nobody
    PROVE  pools'[p] # Nobody /\ pools'[p].lp_mint = pools[p].lp_mint
<1>1. ASSUME NEW t \in sent, Land(t)
      PROVE  pools'[p] # Nobody /\ pools'[p].lp_mint = pools[p].lp_mint
  <2>1. t \in Transactions
    BY SentAreTransactions
  <2>2. CASE t.type = "create_pool" /\ CreatePool(t)
    BY <2>1, <2>2, TransactionFields DEF CreatePool, CanCreatePool, AdminTypeOK
  <2>3. CASE t.type = "set_fee_authority" /\ SetFeeAuthority(t)
    <3>1. /\ t.pool \in Pools /\ pools[p] \in Pool
          /\ [pools[p] EXCEPT !.fee_authority = t.new_fee_authority] \in Pool
          /\ [pools[p] EXCEPT !.fee_authority = t.new_fee_authority].lp_mint
             = pools[p].lp_mint
      BY <2>1, <2>3, TransactionFields DEF AdminTypeOK, Pool
    <3>2. pools' = [pools EXCEPT ![t.pool] =
                       [pools[t.pool] EXCEPT !.fee_authority = t.new_fee_authority]]
      BY <2>3 DEF SetFeeAuthority
    <3> QED BY <3>1, <3>2, AccountsAssumption DEF AdminTypeOK
  <2> QED BY <1>1, <2>2, <2>3
    DEF Land, Execute, SetFee, SetFlashLoanFee, SetLpTokenMetadata, InitProtocolFee,
        SetProtocolFee, poolVars
<1>2. (\E w \in Operators : Command(w)) => UNCHANGED pools
  BY CommandsSign DEF Sign, poolVars
<1>3. \A m \in Mints : OthersMint(m) => UNCHANGED pools
  BY DEF OthersMint, OthersCreateMint, OthersIssue, OthersDescribe, OthersHandOver, poolVars
<1> QED BY <1>1, <1>2, <1>3 DEF CommandNext, DryRun, Sign, Expire, vars, poolVars

(* A command puts together what the simulation accepts.                    *)
LEMMA CommandsForm ==
    ASSUME NEW w, Command(w)
    PROVE  \E t \in Proposed : Sign(t) /\ Formed(t)
<1> USE DEF SendTx, Accepted, Formed
<1>1. ASSUME NEW p \in Pools, NEW m \in Mints, NEW file \in Files,
             CreatePoolCommand(w, p, m, file)
      PROVE  \E t \in Proposed : Sign(t) /\ Formed(t)
  BY <1>1 DEF CreatePoolCommand, CanCreatePool
<1>2. ASSUME NEW p \in Pools, NEW file \in Files, SetFeeCommand(w, p, file)
      PROVE  \E t \in Proposed : Sign(t) /\ Formed(t)
  BY <1>2 DEF SetFeeCommand, CanSetFee, FeeAuthoritySigned
<1>3. ASSUME NEW p \in Pools, NEW new \in Addresses, SetFeeAuthorityCommand(w, p, new)
      PROVE  \E t \in Proposed : Sign(t) /\ Formed(t)
  BY <1>3 DEF SetFeeAuthorityCommand, FeeAuthoritySigned
<1>4. ASSUME NEW p \in Pools, SetFlashLoanFeeCommand(w, p)
      PROVE  \E t \in Proposed : Sign(t) /\ Formed(t)
  BY <1>4 DEF SetFlashLoanFeeCommand, CanSetFlashLoanFee, FeeAuthoritySigned
<1>5. ASSUME NEW p \in Pools, NEW d \in Data, SetLpTokenMetadataCommand(w, p, d)
      PROVE  \E t \in Proposed : Sign(t) /\ Formed(t)
  BY <1>5 DEF SetLpTokenMetadataCommand, CanSetLpTokenMetadata, FeeAuthoritySigned,
              MetaplexAllows
<1>6. ASSUME InitProtocolFeeCommand(w)
      PROVE  \E t \in Proposed : Sign(t) /\ Formed(t)
  BY <1>6 DEF InitProtocolFeeCommand
<1> QED BY <1>1, <1>2, <1>3, <1>4, <1>5, <1>6 DEF Command

LEMMA FormedStep ==
    ASSUME AdminTypeOK, FormedInFlight, [CommandNext]_vars
    PROVE  FormedInFlight'
<1>1. ASSUME NEW t \in Proposed, Formed(t) PROVE Formed(t)'
  <2>1. t \in Transactions
    BY ProposedAssumption
  <2>2. CASE t.type \in {"set_fee", "set_fee_authority", "set_flash_loan_fee",
                         "set_lp_token_metadata"}
    <3>1. t.pool \in Pools /\ pools[t.pool] # Nobody
      BY <1>1, <2>1, <2>2, TransactionFields DEF Formed
    <3>2. pools'[t.pool] # Nobody /\ pools'[t.pool].lp_mint = pools[t.pool].lp_mint
      BY <3>1, PoolsStay
    <3> QED BY <1>1, <3>2 DEF Formed, Signed
  <2> QED BY <1>1, <2>2 DEF Formed, Signed
<1>2. ASSUME NEW t \in sent', t.signer \in Operators
      PROVE  t \in sent \cup Proposed /\ Formed(t)
  <2>1. CASE \E w \in Operators : Command(w)
    BY <1>2, <2>1, CommandsForm DEF FormedInFlight, Sign
  <2>2. CASE \E x \in Proposed : x.signer \notin Operators /\ Sign(x)
    BY <1>2, <2>2 DEF Sign, FormedInFlight
  <2>3. CASE \E x \in sent : Land(x) \/ Expire(x)
    BY <1>2, <2>3 DEF Land, Expire, FormedInFlight
  <2>4. CASE \E m \in Mints : OthersMint(m)
    BY <1>2, <2>4 DEF FormedInFlight,
       OthersMint, OthersCreateMint, OthersIssue, OthersDescribe, OthersHandOver
  <2>5. CASE DryRun \/ UNCHANGED vars
    BY <1>2, <2>5 DEF DryRun, vars, FormedInFlight
  <2> QED BY <2>1, <2>2, <2>3, <2>4, <2>5 DEF CommandNext
<1>3. sent \subseteq Proposed
  BY DEF AdminTypeOK
<1> QED BY <1>1, <1>2, <1>3 DEF FormedInFlight

LEMMA FormedIsAccepted ==
    ASSUME AdminTypeOK, LpTokenIsThePools, PoolsHaveFees, NEW t \in sent, Formed(t)
    PROVE  Accepted(t) \/ Overtaken(t)
<1>1. t \in Transactions
  BY SentAreTransactions
<1>2. CASE t.type = "create_pool"
  <2>1. t.pool \in Pools /\ t.lp_mint \in Mints
    BY <1>1, <1>2, TransactionFields
  <2> QED BY <1>2, <2>1 DEF Formed, Accepted, CanCreatePool, Overtaken, PoolsHaveFees
<1>3. CASE t.type = "init_protocol_fee"
  BY <1>3 DEF Accepted, Overtaken
<1>4. CASE t.type \in {"set_fee", "set_fee_authority", "set_flash_loan_fee",
                       "set_lp_token_metadata"}
  <2>1. t.pool \in Pools /\ pools[t.pool] # Nobody /\ Signed(t)
    BY <1>1, <1>4, TransactionFields DEF Formed
  <2>2. CASE pools[t.pool].fee_authority # t.signer
    BY <1>4, <2>1, <2>2 DEF Overtaken
  <2>3. CASE pools[t.pool].fee_authority = t.signer
    <3>1. FeeAuthoritySigned(t)
      BY <2>1, <2>3 DEF FeeAuthoritySigned, Signed
    <3>2. fees[t.pool] # Nobody
      BY <2>1 DEF PoolsHaveFees
    <3>3. CASE t.type = "set_lp_token_metadata"
      BY <2>1, <3>1, <3>3
      DEF Formed, Accepted, CanSetLpTokenMetadata, MetaplexAllows, LpTokenIsThePools
    <3> QED BY <1>4, <3>1, <3>2, <3>3 DEF Formed, Accepted, CanSetFee, CanSetFlashLoanFee
  <2> QED BY <2>2, <2>3
<1> QED BY <1>1, <1>2, <1>3, <1>4 DEF Transactions, Formed

(* An accepted transaction of the CLI is lost to another operator's, or to *)
(* a founder who came first, and to nothing else.                          *)
THEOREM OnlyOvertakenFailCorrect == CommandSpec => []OnlyOvertakenFail
<1>1. Init => FormedInFlight /\ PoolsHaveFees
  BY DEF Init, FormedInFlight, PoolsHaveFees
<1>2. AdminTypeOK /\ FormedInFlight /\ PoolsHaveFees /\ [CommandNext]_vars
        => (FormedInFlight /\ PoolsHaveFees)'
  BY FormedStep, PoolsHaveFeesStep
<1>3. AdminTypeOK /\ LpTokenIsThePools /\ FormedInFlight /\ PoolsHaveFees
        => OnlyOvertakenFail
  BY FormedIsAccepted DEF FormedInFlight, OnlyOvertakenFail
<1> QED BY <1>1, <1>2, <1>3, CommandsKeepCustody, PTL DEF CommandSpec

=============================================================================
