----------------------------- MODULE FlashLoan -----------------------------
(***************************************************************************)
(* Transactions of several instructions, and the flash loans they can      *)
(* take.  A transaction runs its instructions in order; one that fails     *)
(* undoes them all.  take_flash_loan reads the instructions sysvar and     *)
(* goes ahead only if a repay_flash_loan of the pool comes later in the    *)
(* same transaction; what is borrowed so far stands in the flash account,  *)
(* which holds a single lamport and so cannot outlive the transaction.     *)
(* Balances of accounts are checked for rent exemption only at the end.    *)
(***************************************************************************)
EXTENDS FeeSchedule

CONSTANTS
    Loans,       \* amounts passed to take_flash_loan
    LoanFees,    \* fee ratios passed to set_flash_loan_fee
    FlashRent,   \* rent-exempt minimum of the flash account's eight bytes
    MaxRepays    \* bound: top-level repay_flash_loan instructions in a transaction

ASSUME LoansAssumption ==
    /\ Loans \subseteq Nat /\ LoanFees \subseteq Rational
    /\ FlashRent \in Nat /\ FlashRent > 1 /\ WalletRent > 1
    /\ MaxRepays \in Nat

VARIABLES
    loanFee,        \* flash_loan_fee_account.fee_ratio
    flashOpen,      \* whether the flash account has data
    flashLamports,  \* its balance
    running,        \* whether a transaction is in progress
    repaysAhead,    \* its repay_flash_loan instructions still to run
    before          \* the accounts at its start, <<>> if there is none

flashVars == <<loanFee, flashOpen, flashLamports>>
txVars == <<running, repaysAhead, before>>
allVars == <<vars, flashVars, txVars>>

Accounts ==
    [reserves |-> reserves, incoming |-> incoming, supply |-> supply,
     borrowed |-> borrowed, fee |-> fee, protocolFee |-> protocolFee,
     records |-> records, recorded |-> recorded, recordLamports |-> recordLamports,
     phase |-> phase, lamports |-> lamports, staker |-> staker,
     withdrawer |-> withdrawer, locked |-> locked, loanFee |-> loanFee,
     flashOpen |-> flashOpen, flashLamports |-> flashLamports]

Restored ==
    /\ reserves' = before.reserves /\ incoming' = before.incoming
    /\ supply' = before.supply /\ borrowed' = before.borrowed
    /\ fee' = before.fee /\ protocolFee' = before.protocolFee
    /\ records' = before.records /\ recorded' = before.recorded
    /\ recordLamports' = before.recordLamports
    /\ phase' = before.phase /\ lamports' = before.lamports
    /\ staker' = before.staker /\ withdrawer' = before.withdrawer
    /\ locked' = before.locked /\ loanFee' = before.loanFee
    /\ flashOpen' = before.flashOpen /\ flashLamports' = before.flashLamports

TxInit ==
    /\ Init
    /\ loanFee \in {r \in LoanFees : Validate(r)}
    /\ flashOpen = FALSE /\ flashLamports = 0
    /\ running = FALSE /\ repaysAhead = 0 /\ before = <<>>

-----------------------------------------------------------------------------
(* Fault: the loan replaces what is outstanding instead of adding to it.   *)
TakeForgetful(amount, receiver) ==
    LET potato == IF ~flashOpen /\ flashLamports = 0 THEN 1 ELSE 0
    IN  /\ repaysAhead > 0
        /\ amount + potato <= reserves
        /\ Affordable(amount - PaidOut(receiver, amount))
        /\ reserves' = reserves - potato - PaidOut(receiver, amount)
        /\ borrowed' = amount
        /\ flashOpen' = TRUE
        /\ flashLamports' = flashLamports + potato
        /\ UNCHANGED <<incoming, supply, configVars, recordVars, stakeVars,
                       loanFee, txVars>>

(* Fault: no look ahead for the repayment, only the flash account's rent.  *)
TakeUnchecked(amount, receiver) ==
    LET potato == IF ~flashOpen /\ flashLamports = 0 THEN 1 ELSE 0
    IN  /\ amount + potato <= reserves
        /\ borrowed + amount \in U64
        /\ Affordable(amount - PaidOut(receiver, amount))
        /\ reserves' = reserves - potato - PaidOut(receiver, amount)
        /\ borrowed' = borrowed + amount
        /\ flashOpen' = TRUE
        /\ flashLamports' = flashLamports + potato
        /\ UNCHANGED <<incoming, supply, configVars, recordVars, stakeVars,
                       loanFee, txVars>>

(* The first loan of a transaction creates the flash account and gives it  *)
(* one lamport of the reserves.  Later loans add to lamports_borrowed.     *)
TakeFlashLoan(amount, receiver) ==
    LET potato == IF ~flashOpen /\ flashLamports = 0 THEN 1 ELSE 0
    IN  /\ repaysAhead > 0
        /\ amount + potato <= reserves
        /\ borrowed + amount \in U64
        /\ Affordable(amount - PaidOut(receiver, amount))   \* bound
        /\ reserves' = reserves - potato - PaidOut(receiver, amount)
        /\ borrowed' = borrowed + amount
        /\ flashOpen' = TRUE
        /\ flashLamports' = flashLamports + potato
        /\ UNCHANGED <<incoming, supply, configVars, recordVars, stakeVars,
                       loanFee, txVars>>

(* Everything borrowed so far comes back with one fee on the total; the    *)
(* protocol's share of it leaves, and the flash account is closed into the *)
(* reserves.  Without a flash account there is no u64 to deserialize.      *)
(* Another program may run a nested repayment, which no look ahead finds.  *)
RepayFlashLoan(referrer, nested) ==
    LET feeAmount  == CeilMul(loanFee, borrowed)
        levy       == FloorMul(protocolFee.fee_ratio, feeAmount)
        toReferrer == IF referrer = Nobody
                      THEN 0
                      ELSE FloorMul(protocolFee.referrer_fee_ratio, levy)
        toProtocol == levy - toReferrer
    IN  /\ nested \/ repaysAhead > 0
        /\ flashOpen
        /\ feeAmount \in U64 /\ levy \in U64
        /\ borrowed + feeAmount \in U64
        /\ toReferrer \in U64 /\ toProtocol \in U64
        /\ Affordable(feeAmount)
        /\ reserves' = reserves + borrowed + feeAmount
                         - PaidOut(referrer, toReferrer)
                         - PaidOut(protocolFee.destination, toProtocol)
                         + flashLamports
        /\ borrowed' = 0
        /\ flashOpen' = FALSE
        /\ flashLamports' = 0
        /\ repaysAhead' = IF nested THEN repaysAhead ELSE repaysAhead - 1
        /\ UNCHANGED <<incoming, supply, configVars, recordVars, stakeVars,
                       loanFee, running, before>>

(* Set by the pool's fee authority; unlike a swap fee it may exceed one.   *)
SetFlashLoanFeeUnchecked(r) ==   \* Fault
    loanFee' = r /\ UNCHANGED <<vars, flashOpen, flashLamports, txVars>>

SetFlashLoanFee(r) ==
    /\ Validate(r)
    /\ loanFee' = r
    /\ UNCHANGED <<vars, flashOpen, flashLamports, txVars>>

-----------------------------------------------------------------------------
(* The runtime.                                                            *)

Begin ==
    /\ ~running
    /\ running' = TRUE
    /\ repaysAhead' \in 0 .. MaxRepays
    /\ before' = Accounts
    /\ UNCHANGED <<vars, flashVars>>

Instruction ==
    /\ running
    /\ \/ (PoolInstruction \/ StakeOwner) /\ UNCHANGED <<flashVars, txVars>>
       \/ \E amount \in Loans, receiver \in Users \cup {Pool} :
              TakeFlashLoan(amount, receiver)
       \/ \E referrer \in Authorities, nested \in BOOLEAN :
              RepayFlashLoan(referrer, nested)
       \/ \E r \in LoanFees : SetFlashLoanFee(r)

FlashRentState ==
    IF flashOpen THEN flashLamports >= FlashRent ELSE RentState(flashLamports)

Commit ==
    /\ running
    /\ repaysAhead = 0
    /\ RentState(reserves) /\ FlashRentState
    /\ running' = FALSE
    /\ before' = <<>>
    /\ UNCHANGED <<vars, flashVars, repaysAhead>>

(* An instruction fails, or the balances are not rent-exempt.              *)
Rollback ==
    /\ running
    /\ Restored
    /\ running' = FALSE
    /\ repaysAhead' = 0
    /\ before' = <<>>

(* Transactions that do not touch the pool's program.                      *)
FlashReceives(amount) ==
    /\ flashLamports = 0
    /\ amount >= WalletRent
    /\ flashLamports' = amount
    /\ UNCHANGED <<vars, loanFee, flashOpen>>

Between ==
    /\ ~running
    /\ \/ Cluster /\ RentState(reserves') /\ UNCHANGED flashVars
       \/ \E amount \in Donations : FlashReceives(amount)
    /\ UNCHANGED txVars

TxNext == Begin \/ Instruction \/ Commit \/ Rollback \/ Between

TxSpec == TxInit /\ [][TxNext]_allVars

-----------------------------------------------------------------------------
(* Properties.                                                             *)

(* The ranges of the variables, also while lamports are on loan.           *)
TxTypeOK ==
    /\ AccountsTypeOK
    /\ loanFee \in LoanFees /\ Validate(loanFee)
    /\ flashOpen \in BOOLEAN /\ flashLamports \in Nat
    /\ running \in BOOLEAN /\ repaysAhead \in 0 .. MaxRepays
    /\ ~running => before = <<>> /\ repaysAhead = 0

(* No loan outlives the transaction it was taken in, even if someone had   *)
(* sent the flash account enough lamports to keep it alive.                *)
NoLoanOutlivesItsTransaction == ~running => borrowed = 0 /\ ~flashOpen

(* A loan is outstanding only while a repayment of it is sure to come, or  *)
(* else the transaction is undone.                                         *)
LoanWillBeRepaid == flashOpen => repaysAhead > 0 /\ flashLamports > 0

(* Lending takes no lamports from the LP holders: with the reserves partly *)
(* on loan, every instruction keeps the vault's promise, whatever deposits,*)
(* redemptions and swaps the borrower makes in the middle of it.           *)
LentVault == INSTANCE LpVault WITH
    assets <- Owned, shares <- supply,
    deposits <- RecordRent * Cardinality(records) + flashLamports

LendingKeepsVault ==
    [][(running => running') => [LentVault!Next]_(LentVault!vars)]_allVars

(* A swap is priced by what is in the reserves, lent lamports left out, so *)
(* taking a loan first never makes the swap cheaper.                       *)
LoansNeverCheapenSwaps ==
    [][borrowed' > borrowed =>
           \A s \in OnSale : s \in OnSale' => Quote(s)' >= Quote(s)]_allVars

(* Between transactions LP tokens in circulation are backed; in the middle *)
(* of one the lamport in the flash account may be the last.                *)
BackedAtRest == ~running => SupplyBacked

=============================================================================
