----------------------------- MODULE PoolAdmin -----------------------------
(***************************************************************************)
(* The administration of all pools: their creation, their fees, who may    *)
(* set them, the LP token's mint and metadata, and the global protocol fee.*)
(*                                                                         *)
(* A transaction names the accounts it works on.  Nothing says they belong *)
(* together until an instruction checks it: who signed, which authority    *)
(* the pool stores, and from which pool the other addresses are derived.   *)
(* It is signed at one time and executed later, in any order with others,  *)
(* or never.  A derived address (PDA) is named by what it is derived from: *)
(* fee_account |-> p is the fee account of pool p, and metadata |-> m the  *)
(* metadata account of mint m; a mint authority or update authority p is   *)
(* the pool_sol_reserves of p, for which only the program can sign.        *)
(***************************************************************************)
EXTENDS PoolMath, FiniteSets

CONSTANTS
    Wallets,      \* addresses with a key that can sign
    Keyless,      \* an address nobody can sign for
    Pools,        \* addresses of pool accounts
    Mints,        \* addresses of mints
    Protocol,     \* the global protocol fee account
    Nobody,       \* no account
    Fees,         \* fees passed to create_pool and set_fee
    FlashFees,    \* flash loan fees passed to set_flash_loan_fee
    Data,         \* contents passed to set_lp_token_metadata
    Terms,        \* protocol fees passed to set_protocol_fee
    DefaultTerms, \* ProtocolFee::default()
    Proposed,     \* the transactions that get signed
    MaxSent       \* bound: transactions in flight

Addresses == Wallets \cup {Keyless}

Pool == [fee_authority : Addresses, lp_mint : Mints]

Metadata == [data : Data, update_authority : Wallets \cup Pools]

ProtocolFeeTerms ==
    [destination : Addresses, authority : Addresses,
     fee_ratio : Rational, referrer_fee_ratio : Rational]

(* Transactions of one instruction.  signer is the wallet that signed,     *)
(* authority the account passed where the instruction wants its authority. *)
Transactions ==
    [type : {"create_pool"}, signer : Wallets, authority : Addresses,
     pool : Pools, fee_account : Pools, pool_sol_reserves : Pools,
     lp_mint : Mints, fee : Fees]
  \cup [type : {"set_fee"}, signer : Wallets, authority : Addresses,
        pool : Pools, fee_account : Pools, fee : Fees]
  \cup [type : {"set_fee_authority"}, signer : Wallets, authority : Addresses,
        pool : Pools, new_fee_authority : Addresses]
  \cup [type : {"set_flash_loan_fee"}, signer : Wallets, authority : Addresses,
        pool : Pools, flash_loan_fee_account : Pools, fee_ratio : FlashFees]
  \cup [type : {"set_lp_token_metadata"}, signer : Wallets, authority : Addresses,
        pool : Pools, pool_sol_reserves : Pools, lp_mint : Mints,
        metadata : Mints, data : Data]
  \cup [type : {"init_protocol_fee"}, signer : Wallets]
  \cup [type : {"set_protocol_fee"}, signer : Wallets, authority : Addresses,
        terms : Terms]

ValidTerms(p) == ValidRatio(p.fee_ratio) /\ ValidRatio(p.referrer_fee_ratio)

ASSUME AccountsAssumption ==
    /\ Nobody \notin Addresses /\ Nobody \notin Pools /\ Nobody \notin Mints
    /\ Nobody # Protocol /\ Nobody \notin Pool \cup Metadata
    /\ Addresses \cap Pools = {} /\ Protocol \notin Pools
ASSUME SettingsAssumption ==
    /\ Fees \subseteq FeeEnum /\ Nobody \notin Fees
    /\ FlashFees \subseteq Rational /\ Nobody \notin FlashFees
    /\ Nobody \notin Data
    /\ Terms \subseteq ProtocolFeeTerms /\ Nobody \notin Terms
    /\ DefaultTerms \in Terms /\ ValidTerms(DefaultTerms)
ASSUME ProposedAssumption ==
    Proposed \subseteq Transactions /\ MaxSent \in Nat

VARIABLES
    pools,         \* pool accounts
    fees,          \* fee account of each pool
    flashFees,     \* flash loan fee account of each pool
    mintAuthority, \* mint authority of each mint
    issued,        \* mints of which others than a pool issued tokens
    metadata,      \* metadata account of each mint
    protocolFee,   \* the protocol fee account
    sent           \* transactions signed and not yet executed

poolVars == <<pools, fees, flashFees>>
mintVars == <<mintAuthority, issued, metadata>>
vars == <<poolVars, mintVars, protocolFee, sent>>

Init ==
    /\ pools = [p \in Pools |-> Nobody]
    /\ fees = [p \in Pools |-> Nobody]
    /\ flashFees = [p \in Pools |-> Nobody]
    /\ mintAuthority = [m \in Mints |-> Nobody]
    /\ issued = {}
    /\ metadata = [m \in Mints |-> Nobody]
    /\ protocolFee = Nobody
    /\ sent = {}

-----------------------------------------------------------------------------
(* Account checks that several instructions share.                         *)

(* An account of type Signer.                                              *)
Signed(t) == t.authority = t.signer

(* An existing pool, has_one = fee_authority, and the authority signed.    *)
(* Fault: the authority need not sign.                                     *)
NamedAuthority(t) ==
    pools[t.pool] # Nobody /\ t.authority = pools[t.pool].fee_authority

FeeAuthoritySigned(t) ==
    /\ pools[t.pool] # Nobody
    /\ t.authority = pools[t.pool].fee_authority
    /\ Signed(t)

-----------------------------------------------------------------------------
(* Instructions on pools.                                                  *)

(* An instruction is what it checks, account constraints and validations,  *)
(* and what it then writes, which cannot fail.                             *)

(* The three accounts are created (init): none of them may exist.  The     *)
(* fault is init_if_needed for the mint, which accepts one that is there   *)
(* as long as the reserves are its mint authority.                         *)
CanCreatePoolAnyMint(t) ==
    /\ Signed(t)
    /\ pools[t.pool] = Nobody /\ fees[t.pool] = Nobody
    /\ t.pool_sol_reserves = t.pool /\ t.fee_account = t.pool
    /\ mintAuthority[t.lp_mint] \in {Nobody, t.pool}
    /\ ValidFee(t.fee)

CanCreatePool(t) ==
    /\ Signed(t)
    /\ pools[t.pool] = Nobody
    /\ t.pool_sol_reserves = t.pool
    /\ t.fee_account = t.pool /\ fees[t.fee_account] = Nobody
    /\ mintAuthority[t.lp_mint] = Nobody
    /\ ValidFee(t.fee)

CreatePool(t) ==
    /\ CanCreatePool(t)
    /\ pools' = [pools EXCEPT ![t.pool] =
                    [fee_authority |-> t.authority, lp_mint |-> t.lp_mint]]
    /\ fees' = [fees EXCEPT ![t.fee_account] = t.fee]
    /\ mintAuthority' = [mintAuthority EXCEPT ![t.lp_mint] = t.pool_sol_reserves]
    /\ UNCHANGED <<flashFees, issued, metadata, protocolFee>>

(* Fault: a fee that is not validated.                                     *)
CanSetFeeUnchecked(t) == FeeAuthoritySigned(t) /\ t.fee_account = t.pool

CanSetFee(t) ==
    /\ FeeAuthoritySigned(t)
    /\ t.fee_account = t.pool /\ fees[t.fee_account] # Nobody
    /\ ValidFee(t.fee)

SetFee(t) ==
    /\ CanSetFee(t)
    /\ fees' = [fees EXCEPT ![t.fee_account] = t.fee]
    /\ UNCHANGED <<pools, flashFees, mintVars, protocolFee>>

(* new_fee_authority is an UncheckedAccount: any address will do.          *)
SetFeeAuthority(t) ==
    /\ FeeAuthoritySigned(t)
    /\ pools' = [pools EXCEPT ![t.pool].fee_authority = t.new_fee_authority]
    /\ UNCHANGED <<fees, flashFees, mintVars, protocolFee>>

(* init_if_needed: the first call creates the account.                     *)
CanSetFlashLoanFee(t) ==
    /\ FeeAuthoritySigned(t)
    /\ t.flash_loan_fee_account = t.pool
    /\ Validate(t.fee_ratio)

SetFlashLoanFee(t) ==
    /\ CanSetFlashLoanFee(t)
    /\ flashFees' = [flashFees EXCEPT ![t.flash_loan_fee_account] = t.fee_ratio]
    /\ UNCHANGED <<pools, fees, mintVars, protocolFee>>

(* The Metaplex program: metadata belongs to one mint, is created by its   *)
(* mint authority, and updated by the update authority it names.           *)
MetaplexAllows(t) ==
    /\ t.metadata = t.lp_mint
    /\ IF metadata[t.metadata] = Nobody
       THEN mintAuthority[t.lp_mint] = t.pool_sol_reserves
       ELSE metadata[t.metadata].update_authority = t.pool_sol_reserves

CanSetLpTokenMetadata(t) ==
    /\ FeeAuthoritySigned(t)
    /\ t.lp_mint = pools[t.pool].lp_mint
    /\ t.pool_sol_reserves = t.pool
    /\ MetaplexAllows(t)

SetLpTokenMetadata(t) ==
    /\ CanSetLpTokenMetadata(t)
    /\ metadata' = [metadata EXCEPT ![t.metadata] =
                       [data |-> t.data, update_authority |-> t.pool_sol_reserves]]
    /\ UNCHANGED <<poolVars, mintAuthority, issued, protocolFee>>

-----------------------------------------------------------------------------
(* Instructions on the protocol fee.  Anybody may create it, once, and the *)
(* defaults name its authority.                                            *)

InitProtocolFee(t) ==
    /\ protocolFee = Nobody
    /\ protocolFee' = DefaultTerms
    /\ UNCHANGED <<poolVars, mintVars>>

(* The terms replace the whole account, its authority included.            *)
CanSetProtocolFee(t) ==
    /\ protocolFee # Nobody
    /\ t.authority = protocolFee.authority
    /\ Signed(t)
    /\ ValidTerms(t.terms)

SetProtocolFee(t) ==
    /\ CanSetProtocolFee(t)
    /\ protocolFee' = t.terms
    /\ UNCHANGED <<poolVars, mintVars>>

-----------------------------------------------------------------------------
(* Execution: the handlers, and a transaction's way to them.               *)

Execute(t) ==
    \/ t.type = "create_pool" /\ CreatePool(t)
    \/ t.type = "set_fee" /\ SetFee(t)
    \/ t.type = "set_fee_authority" /\ SetFeeAuthority(t)
    \/ t.type = "set_flash_loan_fee" /\ SetFlashLoanFee(t)
    \/ t.type = "set_lp_token_metadata" /\ SetLpTokenMetadata(t)
    \/ t.type = "init_protocol_fee" /\ InitProtocolFee(t)
    \/ t.type = "set_protocol_fee" /\ SetProtocolFee(t)

Sign(t) ==
    /\ t \notin sent /\ Cardinality(sent) < MaxSent
    /\ sent' = sent \cup {t}
    /\ UNCHANGED <<poolVars, mintVars, protocolFee>>

Land(t) == Execute(t) /\ sent' = sent \ {t}

(* It fails, or its blockhash expires first.                               *)
Expire(t) ==
    /\ sent' = sent \ {t}
    /\ UNCHANGED <<poolVars, mintVars, protocolFee>>

(* Mints of others: created, tokens issued, described, and made over to a  *)
(* pool's reserves, so that they look like that pool's.                    *)
OthersCreateMint(m, w) ==
    /\ mintAuthority[m] = Nobody
    /\ mintAuthority' = [mintAuthority EXCEPT ![m] = w]
    /\ UNCHANGED <<poolVars, issued, metadata, protocolFee, sent>>

OthersIssue(m) ==
    /\ mintAuthority[m] \in Wallets
    /\ issued' = issued \cup {m}
    /\ UNCHANGED <<poolVars, mintAuthority, metadata, protocolFee, sent>>

OthersDescribe(m, d) ==
    /\ mintAuthority[m] \in Wallets /\ metadata[m] = Nobody
    /\ metadata' = [metadata EXCEPT ![m] =
                       [data |-> d, update_authority |-> mintAuthority[m]]]
    /\ UNCHANGED <<poolVars, mintAuthority, issued, protocolFee, sent>>

OthersHandOver(m, p) ==
    /\ mintAuthority[m] \in Wallets
    /\ mintAuthority' = [mintAuthority EXCEPT ![m] = p]
    /\ UNCHANGED <<poolVars, issued, metadata, protocolFee, sent>>

OthersMint(m) ==
    \/ \E w \in Wallets : OthersCreateMint(m, w)
    \/ OthersIssue(m)
    \/ \E d \in Data : OthersDescribe(m, d)
    \/ \E p \in Pools : OthersHandOver(m, p)

Next ==
    \/ \E t \in Proposed : Sign(t)
    \/ \E t \in sent : Land(t) \/ Expire(t)
    \/ \E m \in Mints : OthersMint(m)

Spec == Init /\ [][Next]_vars

-----------------------------------------------------------------------------
(* Types, with what validate has checked of every setting in force.        *)
AdminTypeOK ==
    /\ pools \in [Pools -> Pool \cup {Nobody}]
    /\ fees \in [Pools -> {f \in Fees : ValidFee(f)} \cup {Nobody}]
    /\ flashFees \in [Pools -> {r \in FlashFees : Validate(r)} \cup {Nobody}]
    /\ mintAuthority \in [Mints -> Wallets \cup Pools \cup {Nobody}]
    /\ issued \subseteq Mints
    /\ metadata \in [Mints -> Metadata \cup {Nobody}]
    /\ protocolFee \in {p \in Terms : ValidTerms(p)} \cup {Nobody}
    /\ sent \subseteq Proposed

(* Every pool has an LP token of its own that nobody else has ever minted, *)
(* will ever mint or can describe: the supply that add_liquidity and       *)
(* remove_liquidity price shares with starts at zero and is theirs alone.  *)
LpTokenIsThePools ==
    \A p \in Pools : pools[p] # Nobody =>
        LET m == pools[p].lp_mint
        IN  /\ mintAuthority[m] = p
            /\ m \notin issued
            /\ metadata[m] # Nobody => metadata[m].update_authority = p
            /\ \A q \in Pools \ {p} : pools[q] # Nobody => pools[q].lp_mint # m

(* The pool's accounts as charters.  Its LP token's metadata is one item.  *)
Token(p) == IF pools[p] = Nobody THEN Nobody ELSE metadata[pools[p].lp_mint]

PoolCharter(p) ==
    [holder      |-> IF pools[p] = Nobody THEN Nobody ELSE pools[p].fee_authority,
     lp_mint     |-> IF pools[p] = Nobody THEN Nobody ELSE pools[p].lp_mint,
     fee         |-> fees[p],
     flash_fee   |-> flashFees[p],
     description |-> IF Token(p) = Nobody THEN Nobody ELSE Token(p).data,
     terms       |-> Nobody]

ProtocolCharter ==
    [holder |-> IF protocolFee = Nobody THEN Nobody ELSE protocolFee.authority,
     lp_mint |-> Nobody, fee |-> Nobody, flash_fee |-> Nobody,
     description |-> Nobody, terms |-> protocolFee]

Charter(x) == IF x = Protocol THEN ProtocolCharter ELSE PoolCharter(x)

(* What the signer of a transaction consents to, read from the account it  *)
(* asks to change.                                                         *)
ThingOf(t) ==
    CASE t.type \in {"create_pool", "set_fee"} -> t.fee_account
      [] t.type = "set_flash_loan_fee" -> t.flash_loan_fee_account
      [] t.type \in {"set_fee_authority", "set_lp_token_metadata"} -> t.pool
      [] OTHER -> Protocol

ChangeOf(t) ==
    CASE t.type = "create_pool" ->
            [holder |-> t.signer, lp_mint |-> t.lp_mint, fee |-> t.fee]
      [] t.type = "set_fee" -> [fee |-> t.fee]
      [] t.type = "set_fee_authority" -> [holder |-> t.new_fee_authority]
      [] t.type = "set_flash_loan_fee" -> [flash_fee |-> t.fee_ratio]
      [] t.type = "set_lp_token_metadata" -> [description |-> t.data]
      [] t.type = "init_protocol_fee" ->
            [holder |-> DefaultTerms.authority, terms |-> DefaultTerms]
      [] OTHER -> [holder |-> t.terms.authority, terms |-> t.terms]

ConsentOf(t) == [thing |-> ThingOf(t), by |-> t.signer, change |-> ChangeOf(t)]

Things == Pools \cup {Protocol}

Custodian == INSTANCE Custody WITH
    Items <- {"lp_mint", "fee", "flash_fee", "description", "terms"},
    Entitled <- [x \in Things |->
                    IF x = Protocol THEN DefaultTerms.authority ELSE Nobody],
    charter <- [x \in Things |-> Charter(x)],
    consents <- {ConsentOf(t) : t \in sent}

(* The program implements Custody: a pool's fee, flash loan fee, authority *)
(* and token description, and the protocol's terms and authority, change   *)
(* only by a transaction that the authority of that moment signed for that *)
(* account, and nothing else moves with them; an authority that was        *)
(* replaced has no say, not even through transactions it signed before.    *)
CustodySpec == Custodian!Spec

=============================================================================
