---------------------------- MODULE UnstakePool ----------------------------
(***************************************************************************)
(* One liquidity pool of the unstake program.  Users trade stake accounts  *)
(* for lamports of the pool's SOL reserves; anyone deactivates the stake   *)
(* accounts the pool bought and reclaims them once they are inactive.      *)
(*                                                                         *)
(* An instruction is a step.  Specification Spec runs one instruction per  *)
(* transaction, so the guards of an action are the program's error paths:  *)
(* a failing instruction leaves no trace.  The stake program, the system   *)
(* program and the wallets around the pool are the actions of the last     *)
(* part, modelled as far as they can touch what the pool reads.            *)
(***************************************************************************)
EXTENDS PoolMath, FiniteSets, Functions

CONSTANTS
    Users,          \* wallets that can sign
    Stakes,         \* addresses of stake accounts
    Pool,           \* the pool_sol_reserves PDA: vault, and authority of stake
    Nobody,         \* no account: the authority of an absent stake account,
                    \* the referrer of an unstake that names none
    RecordRent,     \* rent-exempt minimum of a StakeAccountRecord
    WalletRent,     \* rent-exempt minimum of an account without data
    StakeMin,       \* smallest balance of an initialised stake account
    SolSupply,      \* bound: all lamports in the pool's reach
    Deposits,       \* amounts passed to add_liquidity
    Burns,          \* amounts of LP tokens passed to remove_liquidity
    StakeAmounts,   \* balances of fresh stake accounts
    Donations,      \* rewards and unsolicited transfers
    Fees,           \* fees passed to create_pool and set_fee
    ProtocolFees    \* protocol fees passed to set_protocol_fee

Authorities == Users \cup {Pool, Nobody}

ASSUME UsersAssumption ==
    /\ Pool \notin Users /\ Nobody \notin Users /\ Pool # Nobody
    /\ IsFiniteSet(Stakes)
ASSUME RentAssumption ==
    /\ RecordRent \in Nat \ {0} /\ WalletRent \in Nat \ {0}
    /\ WalletRent <= RecordRent /\ RecordRent <= StakeMin
    /\ StakeMin \in Nat
ASSUME AmountsAssumption ==
    /\ SolSupply \in U64
    /\ Deposits \subseteq Nat /\ Burns \subseteq Nat
    /\ StakeAmounts \subseteq Nat /\ Donations \subseteq Nat
ASSUME FeesAssumption ==
    /\ Fees \subseteq FeeEnum
    /\ ProtocolFees \subseteq [fee_ratio : Rational,
                               referrer_fee_ratio : Rational,
                               destination : Users \cup {Pool}]

VARIABLES
    reserves,        \* lamports of pool_sol_reserves
    incoming,        \* pool_account.incoming_stake
    supply,          \* lp_mint.supply
    fee,             \* fee_account.fee
    protocolFee,     \* the protocol fee account
    borrowed,        \* flash_account.lamports_borrowed, 0 if the account is empty
    records,         \* stake accounts with a StakeAccountRecord
    recorded,        \* lamports_at_creation of each record
    recordLamports,  \* balance of each record's PDA
    phase,           \* delegation of each stake account, "none" if absent
    lamports,        \* balance of each stake account
    staker,          \* its staker authority
    withdrawer,      \* its withdrawer authority
    locked           \* whether its lockup is in force

ledgerVars == <<reserves, incoming, supply, borrowed>>
configVars == <<fee, protocolFee>>
recordVars == <<records, recorded, recordLamports>>
stakeVars  == <<phase, lamports, staker, withdrawer, locked>>
vars == <<ledgerVars, configVars, recordVars, stakeVars>>

Phases == {"none", "undelegated", "activating", "active", "deactivating", "inactive"}

Owned == PoolOwnedLamports(reserves, incoming, borrowed)

(* Lamports are conserved: what the pool, its borrowers, its records and   *)
(* the stake accounts hold never exceeds what the chain has issued.        *)
TotalLamports ==
    reserves + borrowed
             + SumFunctionOnSet(recordLamports, Stakes)
             + SumFunctionOnSet(lamports, Stakes)

Affordable(amount) == TotalLamports + amount <= SolSupply

(* The runtime rejects a transaction that leaves the reserves, an account  *)
(* without data, with a balance that is neither zero nor rent-exempt.      *)
RentState(balance) == balance = 0 \/ balance >= WalletRent

ValidProtocolFee(p) == ValidRatio(p.fee_ratio) /\ ValidRatio(p.referrer_fee_ratio)

-----------------------------------------------------------------------------
(* The pool and protocol fee accounts as create_pool leaves them.          *)
Init ==
    /\ reserves = 0 /\ incoming = 0 /\ supply = 0 /\ borrowed = 0
    /\ fee \in {f \in Fees : ValidFee(f)}
    /\ protocolFee \in {p \in ProtocolFees : ValidProtocolFee(p)}
    /\ records = {}
    /\ recorded = [s \in Stakes |-> 0]
    /\ recordLamports = [s \in Stakes |-> 0]
    /\ phase = [s \in Stakes |-> "none"]
    /\ lamports = [s \in Stakes |-> 0]
    /\ staker = [s \in Stakes |-> Nobody]
    /\ withdrawer = [s \in Stakes |-> Nobody]
    /\ locked = [s \in Stakes |-> FALSE]

-----------------------------------------------------------------------------
(* Liquidity.  The share price is computed before any lamport moves.       *)

AddLiquidity(amount) ==
    LET toMint == LpTokensToMint(Owned, supply, amount)
    IN  /\ Owned \in U64
        /\ toMint \in U64 \ {0}
        /\ Affordable(amount)
        /\ supply + toMint \in U64
        /\ reserves' = reserves + amount
        /\ supply' = supply + toMint
        /\ UNCHANGED <<incoming, borrowed, configVars, recordVars, stakeVars>>

(* What a transfer takes out of the reserves: nothing if it ends there.    *)
PaidOut(payee, amount) == IF payee = Pool THEN 0 ELSE amount

(* Fault: paying what the reserves hold instead of failing.                *)
RemoveCapped(amountLp, to) ==
    LET toReturn == LamportsToReturn(Owned, supply, amountLp)
        paid     == IF toReturn <= reserves THEN toReturn ELSE reserves
    IN  /\ amountLp <= supply
        /\ reserves' = reserves - PaidOut(to, paid)
        /\ supply' = supply - amountLp
        /\ UNCHANGED <<incoming, borrowed, configVars, recordVars, stakeVars>>

RemoveLiquidity(amountLp, to) ==
    LET toReturn == LamportsToReturn(Owned, supply, amountLp)
    IN  /\ Owned \in U64
        /\ toReturn \in U64
        /\ toReturn <= reserves
        /\ amountLp <= supply
        /\ reserves' = reserves - PaidOut(to, toReturn)
        /\ supply' = supply - amountLp
        /\ UNCHANGED <<incoming, borrowed, configVars, recordVars, stakeVars>>

-----------------------------------------------------------------------------
(* Unstake.  The record's rent leaves the reserves before the fee is       *)
(* computed from them; the authorities move to the pool; the unstaker, the *)
(* referrer and the protocol are paid; the full balance is booked.         *)

(* Fault: no rent for a record address that already holds lamports.        *)
TopUpIfEmpty(s) == IF recordLamports[s] > 0 THEN 0 ELSE RecordRent

RecordTopUp(s) ==
    IF recordLamports[s] >= RecordRent THEN 0 ELSE RecordRent - recordLamports[s]

(* Fault: the seller keeps the staker authority.                           *)
TakeWithdrawer(s) == withdrawer' = [withdrawer EXCEPT ![s] = Pool] /\ UNCHANGED staker

TakeAuthorities(s) ==
    /\ staker' = [staker EXCEPT ![s] = Pool]
    /\ withdrawer' = [withdrawer EXCEPT ![s] = Pool]

RunUnstake(u, s, destination, referrer) ==
    LET available  == reserves - RecordTopUp(s)
        feeAmount  == ApplyFee(fee, incoming, available, lamports[s])
        toUnstaker == lamports[s] - feeAmount
        levy       == FloorMul(protocolFee.fee_ratio, feeAmount)
        toReferrer == IF referrer = Nobody
                      THEN 0
                      ELSE FloorMul(protocolFee.referrer_fee_ratio, levy)
        toProtocol == levy - toReferrer
    IN  /\ phase[s] # "none"
        /\ ~locked[s]
        /\ s \notin records
        /\ RecordTopUp(s) <= reserves
        /\ withdrawer[s] = u
        /\ feeAmount \in U64
        /\ toUnstaker \in U64
        /\ levy \in U64
        /\ toUnstaker + levy <= available
        /\ toReferrer \in U64
        /\ toProtocol \in U64
        /\ incoming + lamports[s] \in U64
        /\ reserves' = available - PaidOut(destination, toUnstaker)
                                 - PaidOut(referrer, toReferrer)
                                 - PaidOut(protocolFee.destination, toProtocol)
        /\ recordLamports' = [recordLamports EXCEPT ![s] = @ + RecordTopUp(s)]
        /\ TakeAuthorities(s)
        /\ records' = records \cup {s}
        /\ recorded' = [recorded EXCEPT ![s] = lamports[s]]
        /\ incoming' = incoming + lamports[s]
        /\ UNCHANGED <<supply, borrowed, configVars, phase, lamports, locked>>

(* The destination of unstake is any system account, the reserves included *)
Unstake(u, s, destination, referrer) == RunUnstake(u, s, destination, referrer)

(* and that of unstake_wsol a wSOL token account, which the reserves are   *)
(* not; sync_native then changes that account alone.                       *)
UnstakeWsol(u, s, destination, referrer) ==
    destination # Pool /\ RunUnstake(u, s, destination, referrer)

-----------------------------------------------------------------------------
(* The life of a stake account the pool holds.                             *)

(* The stake program's DeactivateStake: a stake deactivated in the epoch   *)
(* of its delegation was never active.                                     *)
Deactivated(ph) == IF ph = "activating" THEN "inactive" ELSE "deactivating"

DeactivateStakeAccount(s) ==
    /\ phase[s] \in {"activating", "active"}
    /\ staker[s] = Pool
    /\ phase' = [phase EXCEPT ![s] = Deactivated(@)]
    /\ UNCHANGED <<ledgerVars, configVars, recordVars,
                   lamports, staker, withdrawer, locked>>

(* The stake program lets the withdrawer take everything from an account   *)
(* that is neither staked nor locked; the account is then gone.            *)
Withdrawable(s) == phase[s] \in {"undelegated", "inactive"} /\ ~locked[s]

CloseStake(s) ==
    /\ phase' = [phase EXCEPT ![s] = "none"]
    /\ lamports' = [lamports EXCEPT ![s] = 0]
    /\ staker' = [staker EXCEPT ![s] = Nobody]
    /\ withdrawer' = [withdrawer EXCEPT ![s] = Nobody]
    /\ UNCHANGED locked

(* Faults: one half of a reclaim's bookkeeping forgotten, and the balance  *)
(* of the day un-booked instead of the one that was booked.                *)
UnbookBalance(s) ==
    /\ incoming - lamports[s] \in U64
    /\ incoming' = incoming - lamports[s]
    /\ records' = records \ {s}
    /\ recorded' = [recorded EXCEPT ![s] = 0]

UnbookTwiceCounted(s) ==
    /\ records' = records \ {s}
    /\ recorded' = [recorded EXCEPT ![s] = 0]
    /\ UNCHANGED incoming

UnbookStaleRecord(s) ==
    /\ incoming - recorded[s] \in U64
    /\ incoming' = incoming - recorded[s]
    /\ UNCHANGED <<records, recorded>>

(* The record is closed and its stake no longer incoming.                  *)
Unbook(s) ==
    /\ incoming - recorded[s] \in U64
    /\ incoming' = incoming - recorded[s]
    /\ records' = records \ {s}
    /\ recorded' = [recorded EXCEPT ![s] = 0]

ReclaimStakeAccount(s) ==
    /\ s \in records
    /\ Withdrawable(s)
    /\ withdrawer[s] = Pool
    /\ Unbook(s)
    /\ reserves' = reserves + lamports[s] + recordLamports[s]
    /\ recordLamports' = [recordLamports EXCEPT ![s] = 0]
    /\ CloseStake(s)
    /\ UNCHANGED <<supply, borrowed, configVars>>

-----------------------------------------------------------------------------
(* Configuration, by whoever holds the authority (see PoolAdmin).          *)

SetFeeUnchecked(f) ==   \* Fault
    fee' = f /\ UNCHANGED <<protocolFee, ledgerVars, recordVars, stakeVars>>

SetFee(f) ==
    /\ ValidFee(f)
    /\ fee' = f
    /\ UNCHANGED <<protocolFee, ledgerVars, recordVars, stakeVars>>

SetProtocolFee(p) ==
    /\ ValidProtocolFee(p)
    /\ protocolFee' = p
    /\ UNCHANGED <<fee, ledgerVars, recordVars, stakeVars>>

-----------------------------------------------------------------------------
(* The world around the pool: owners of stake accounts, the cluster's      *)
(* epochs, and anyone who sends lamports.                                  *)

CreateStake(u, s, amount) ==
    /\ phase[s] = "none"
    /\ amount >= StakeMin
    /\ Affordable(amount)
    /\ phase' = [phase EXCEPT ![s] = "undelegated"]
    /\ lamports' = [lamports EXCEPT ![s] = amount]
    /\ staker' = [staker EXCEPT ![s] = u]
    /\ withdrawer' = [withdrawer EXCEPT ![s] = u]
    /\ UNCHANGED <<ledgerVars, configVars, recordVars, locked>>

DelegateStake(u, s) ==
    /\ staker[s] = u
    /\ phase[s] \in {"undelegated", "inactive"}
    /\ phase' = [phase EXCEPT ![s] = "activating"]
    /\ UNCHANGED <<ledgerVars, configVars, recordVars,
                   lamports, staker, withdrawer, locked>>

OwnerDeactivate(u, s) ==
    /\ staker[s] = u
    /\ phase[s] \in {"activating", "active"}
    /\ phase' = [phase EXCEPT ![s] = Deactivated(@)]
    /\ UNCHANGED <<ledgerVars, configVars, recordVars,
                   lamports, staker, withdrawer, locked>>

OwnerWithdraw(u, s) ==
    /\ withdrawer[s] = u
    /\ Withdrawable(s)
    /\ CloseStake(s)
    /\ UNCHANGED <<ledgerVars, configVars, recordVars>>

(* Both authorities may name a new staker, only the withdrawer a new       *)
(* withdrawer, and not under a lockup.  The new authority can be the pool. *)
AuthorizeStaker(u, s, new) ==
    /\ u \in {staker[s], withdrawer[s]}
    /\ staker' = [staker EXCEPT ![s] = new]
    /\ UNCHANGED <<ledgerVars, configVars, recordVars,
                   phase, lamports, withdrawer, locked>>

AuthorizeWithdrawer(u, s, new) ==
    /\ withdrawer[s] = u
    /\ ~locked[s]
    /\ withdrawer' = [withdrawer EXCEPT ![s] = new]
    /\ UNCHANGED <<ledgerVars, configVars, recordVars,
                   phase, lamports, staker, locked>>

SetLockup(u, s) ==
    /\ withdrawer[s] = u
    /\ locked' = [locked EXCEPT ![s] = TRUE]
    /\ UNCHANGED <<ledgerVars, configVars, recordVars,
                   phase, lamports, staker, withdrawer>>

LockupExpires(s) ==
    /\ locked[s]
    /\ locked' = [locked EXCEPT ![s] = FALSE]
    /\ UNCHANGED <<ledgerVars, configVars, recordVars,
                   phase, lamports, staker, withdrawer>>

(* An epoch ends: stake warms up or cools down.                            *)
EpochPasses(s) ==
    /\ \/ phase[s] = "activating" /\ phase' = [phase EXCEPT ![s] = "active"]
       \/ phase[s] = "deactivating" /\ phase' = [phase EXCEPT ![s] = "inactive"]
    /\ UNCHANGED <<ledgerVars, configVars, recordVars,
                   lamports, staker, withdrawer, locked>>

(* Staking rewards, or a transfer to the stake account.                    *)
StakeReceives(s, amount) ==
    /\ phase[s] # "none"
    /\ Affordable(amount)
    /\ lamports' = [lamports EXCEPT ![s] = @ + amount]
    /\ UNCHANGED <<ledgerVars, configVars, recordVars,
                   phase, staker, withdrawer, locked>>

ReservesReceive(amount) ==
    /\ Affordable(amount)
    /\ reserves' = reserves + amount
    /\ UNCHANGED <<incoming, supply, borrowed, configVars, recordVars, stakeVars>>

(* A transfer to the address of a record, before or after it exists.       *)
RecordReceives(s, amount) ==
    /\ Affordable(amount)
    /\ recordLamports[s] + amount >= WalletRent
    /\ recordLamports' = [recordLamports EXCEPT ![s] = @ + amount]
    /\ UNCHANGED <<ledgerVars, configVars, records, recorded, stakeVars>>

(* The token program lets a holder burn LP tokens without the pool.        *)
HolderBurns(amountLp) ==
    /\ amountLp <= supply
    /\ supply' = supply - amountLp
    /\ UNCHANGED <<reserves, incoming, borrowed, configVars, recordVars, stakeVars>>

-----------------------------------------------------------------------------
PoolInstruction ==
    \/ \E amount \in Deposits : AddLiquidity(amount)
    \/ \E amountLp \in Burns \cup {supply}, to \in Users \cup {Pool} :
           RemoveLiquidity(amountLp, to)
    \/ \E u \in Users, s \in Stakes,
          destination \in Users \cup {Pool}, referrer \in Authorities :
           \/ Unstake(u, s, destination, referrer)
           \/ UnstakeWsol(u, s, destination, referrer)
    \/ \E s \in Stakes : DeactivateStakeAccount(s) \/ ReclaimStakeAccount(s)
    \/ \E f \in Fees : SetFee(f)
    \/ \E p \in ProtocolFees : SetProtocolFee(p)

StakeOwner ==
    \E u \in Users, s \in Stakes :
        \/ \E amount \in StakeAmounts : CreateStake(u, s, amount)
        \/ DelegateStake(u, s) \/ OwnerDeactivate(u, s) \/ OwnerWithdraw(u, s)
        \/ \E new \in Users \cup {Pool} :
               AuthorizeStaker(u, s, new) \/ AuthorizeWithdrawer(u, s, new)
        \/ SetLockup(u, s)

Cluster ==
    \/ \E s \in Stakes : LockupExpires(s) \/ EpochPasses(s)
    \/ \E amount \in Donations :
           \/ ReservesReceive(amount)
           \/ \E s \in Stakes : StakeReceives(s, amount) \/ RecordReceives(s, amount)
    \/ \E amountLp \in Burns : HolderBurns(amountLp)

Environment == StakeOwner \/ Cluster

Next == (PoolInstruction \/ Environment) /\ RentState(reserves')

Spec == Init /\ [][Next]_vars

(* deactivate_stake_account and reclaim_stake_account need no authority:   *)
(* a crank calls them for every stake account of the pool.  Epochs end.    *)
Crank(s) == DeactivateStakeAccount(s) \/ ReclaimStakeAccount(s)

Fairness == \A s \in Stakes :
    WF_vars(Crank(s) /\ RentState(reserves')) /\ WF_vars(EpochPasses(s))

FairSpec == Spec /\ Fairness

-----------------------------------------------------------------------------
(* Properties.                                                             *)

(* The ranges of the variables, lamports on loan included; without flash   *)
(* loans (see FlashLoan) there are none.                                   *)
AccountsTypeOK ==
    /\ reserves \in Nat /\ incoming \in U64 /\ supply \in U64 /\ borrowed \in U64
    /\ fee \in {f \in Fees : ValidFee(f)}
    /\ protocolFee \in {p \in ProtocolFees : ValidProtocolFee(p)}
    /\ records \in SUBSET Stakes
    /\ recorded \in [Stakes -> Nat]
    /\ recordLamports \in [Stakes -> Nat]
    /\ phase \in [Stakes -> Phases]
    /\ lamports \in [Stakes -> Nat]
    /\ staker \in [Stakes -> Authorities]
    /\ withdrawer \in [Stakes -> Authorities]
    /\ locked \in [Stakes -> BOOLEAN]

TypeOK == AccountsTypeOK /\ borrowed = 0

(* incoming_stake is the sum of lamports_at_creation over the records that *)
(* exist, so the checked_sub of reclaim_stake_account never fails and no   *)
(* lamport is counted twice or forgotten in the LP price, whatever rewards *)
(* the stake accounts collect in between.                                  *)
IncomingIsRecorded == incoming = SumFunctionOnSet(recorded, records)

(* As long as a record exists the pool alone controls the stake account:   *)
(* nobody can withdraw it, redelegate it or put it under a lockup, and the *)
(* record's account is rent-exempt.  unstake.rs:24-26 argues this.         *)
RecordsControlled ==
    \A s \in records :
        /\ phase[s] # "none"
        /\ staker[s] = Pool /\ withdrawer[s] = Pool
        /\ ~locked[s]
        /\ recordLamports[s] >= RecordRent

(* The stake account still holds at least what was booked for it, so       *)
(* reclaiming it never leaves the pool with less than it counted on.       *)
RecordsCovered == \A s \in records : lamports[s] >= recorded[s] /\ recorded[s] >= StakeMin

(* Outstanding LP tokens are never worthless, whatever was unstaked or     *)
(* removed: the "0 liquidity, non-zero supply" branch of add_liquidity.rs  *)
(* is never needed.                                                        *)
SupplyBacked == supply > 0 => Owned > 0

(* What the pool owns is a u64, so calc_pool_owned_lamports never fails.   *)
OwnedFits == Owned <= SolSupply

(* The LP holders' view: the pool implements the vault, with what it owns  *)
(* as assets and the rent of each record as a deposit.                     *)
Vault == INSTANCE LpVault WITH
    assets <- Owned, shares <- supply, deposits <- RecordRent * Cardinality(records)

VaultSpec == Vault!Spec

(* The sellers' and cranks' view: the pool implements the book of stake    *)
(* accounts.  One that was sold is out of its seller's reach and moves only*)
(* towards its collection, by the pool's instructions or as epochs pass.   *)
Book == INSTANCE StakeBook WITH
    held    <- {s \in Stakes : withdrawer[s] = Pool},
    steered <- {s \in Stakes : staker[s] = Pool}

BookSpec == Book!Spec

(* Redeeming the last LP token for lamports leaves the pool with nothing:  *)
(* no dust and no incoming stake stays behind for the next depositor       *)
(* (SPEC.md: "if a RemoveLiquidity instruction results in LP token supply  *)
(* going to 0, then the SOL owned by the pool should go to 0 as well").    *)
LastShareTakesAll ==
    [][supply > 0 /\ supply' = 0 /\ reserves' < reserves => Owned' = 0]_vars

(* The trader's side of what VaultSpec promises the holders: however       *)
(* donations, rewards and burns have moved the price, a deposit buys shares*)
(* that with one more are worth more than it, and a redemption falls short *)
(* of its share of the pool by less than a lamport.                        *)
TradersKeepTheirWorth ==
    [][/\ supply' > supply
            => (supply' - supply + 1) * Owned' > (Owned' - Owned) * supply'
       /\ supply' < supply /\ reserves' < reserves
            => (reserves - reserves' + 1) * supply > (supply - supply') * Owned]_vars

(* A stake account that a user sold is eventually turned back into         *)
(* reserves and its record closed, if cranks keep running and epochs pass. *)
EventuallyReclaimed == \A s \in Stakes : s \in records ~> s \notin records

=============================================================================
