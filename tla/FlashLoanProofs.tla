-------------------------- MODULE FlashLoanProofs --------------------------
(***************************************************************************)
(* Proofs about transactions and flash loans, for any amounts, fees,       *)
(* number of repayments, and lamports sent to the flash account.  Loans    *)
(* end with their transaction because of the look ahead for a repayment    *)
(* alone, not of the flash account's missing rent.  The pool's invariants  *)
(* hold in the middle of a transaction but for SupplyBacked, and since the *)
(* accounts saved at its start satisfy them all, also after a rollback.    *)
(***************************************************************************)
EXTENDS FlashLoan, FeeScheduleProofs

(* What is borrowed is in the flash account, the flash account is followed *)
(* by a repayment, and a rollback restores a state without a loan.         *)
LoanInv ==
    /\ flashOpen \in BOOLEAN /\ flashLamports \in Nat
    /\ borrowed # 0 => flashOpen
    /\ flashOpen => running /\ repaysAhead > 0 /\ flashLamports > 0
    /\ running => /\ before.borrowed = 0 /\ before.flashOpen = FALSE
                  /\ before.flashLamports \in Nat

LEMMA LoanInvInit == TxInit => LoanInv
<1> SUFFICES ASSUME TxInit PROVE LoanInv
  OBVIOUS
<1>1. flashOpen = FALSE /\ flashLamports = 0 /\ running = FALSE /\ borrowed = 0
  BY DEF TxInit, Init
<1> QED BY <1>1 DEF LoanInv

LEMMA LoanInvStep == LoanInv /\ [TxNext]_allVars => LoanInv'
<1> SUFFICES ASSUME LoanInv, [TxNext]_allVars PROVE LoanInv'
  OBVIOUS
<1> USE DEF LoanInv, vars, ledgerVars, flashVars, txVars
<1>1. CASE UNCHANGED allVars
  BY <1>1 DEF allVars
<1>2. CASE Begin
  BY <1>2 DEF Begin, Accounts
<1>3. CASE running /\ (PoolInstruction \/ StakeOwner) /\ UNCHANGED <<flashVars, txVars>>
  BY <1>3, OthersLeaveLoans DEF AnyStep, Environment
<1>4. ASSUME running, NEW amount, NEW receiver, TakeFlashLoan(amount, receiver)
      PROVE  LoanInv'
  BY <1>4 DEF TakeFlashLoan
<1>5. ASSUME running, NEW referrer, NEW nested \in BOOLEAN,
             RepayFlashLoan(referrer, nested)
      PROVE  LoanInv'
  BY <1>5 DEF RepayFlashLoan
<1>6. ASSUME running, NEW r, SetFlashLoanFee(r)
      PROVE  LoanInv'
  BY <1>6 DEF SetFlashLoanFee
<1>7. CASE Commit
  BY <1>7 DEF Commit
<1>8. CASE Rollback
  BY <1>8 DEF Rollback, Restored
<1>9. CASE Between
  BY <1>9, OthersLeaveLoans, AmountsAssumption
  DEF Between, FlashReceives, AnyStep, Environment
<1> QED
  BY <1>1, <1>2, <1>3, <1>4, <1>5, <1>6, <1>7, <1>8, <1>9 DEF TxNext, Instruction

(* A committed transaction leaves no loan behind: what left the reserves   *)
(* as a loan is back, or the transaction never happened.                   *)
THEOREM LoansEnd == TxSpec => []NoLoanOutlivesItsTransaction
<1>1. LoanInv => NoLoanOutlivesItsTransaction
  BY DEF LoanInv, NoLoanOutlivesItsTransaction
<1> QED BY <1>1, LoanInvInit, LoanInvStep, PTL DEF TxSpec

(* As long as the flash account records a loan, an instruction that repays *)
(* it is still ahead, and the account holds the lamport it was created     *)
(* with, so the repayment finds it.                                        *)
THEOREM LoansAreFollowed == TxSpec => []LoanWillBeRepaid
<1>1. LoanInv => LoanWillBeRepaid
  BY DEF LoanInv, LoanWillBeRepaid
<1> QED BY <1>1, LoanInvInit, LoanInvStep, PTL DEF TxSpec

-----------------------------------------------------------------------------
(* The pool's invariants, with lamports on loan and across rollbacks.      *)

(* The accounts as they were when the transaction began.                   *)
Saved == INSTANCE UnstakePoolProofs WITH
    reserves <- before.reserves, incoming <- before.incoming,
    supply <- before.supply, borrowed <- before.borrowed,
    fee <- before.fee, protocolFee <- before.protocolFee,
    records <- before.records, recorded <- before.recorded,
    recordLamports <- before.recordLamports, phase <- before.phase,
    lamports <- before.lamports, staker <- before.staker,
    withdrawer <- before.withdrawer, locked <- before.locked

(* With the flash account open its lamport may be the pool's last.         *)
BackedButForLoans == ~flashOpen => SupplyBacked

TxInv ==
    /\ AccountsInv
    /\ BackedButForLoans
    /\ LoanInv
    /\ loanFee \in LoanFees /\ Validate(loanFee)
    /\ running \in BOOLEAN /\ repaysAhead \in 0 .. MaxRepays
    /\ ~running => before = <<>> /\ repaysAhead = 0
    /\ running => /\ Saved!AccountsInv
                  /\ Saved!SupplyBacked
                  /\ before.loanFee \in LoanFees /\ Validate(before.loanFee)

(* A pool of saved accounts speaks the same language.                      *)
LEMMA SavedTerms ==
    /\ Saved!U64 = U64 /\ Saved!Phases = Phases /\ Saved!Authorities = Authorities
    /\ \A f : Saved!ValidFee(f) <=> ValidFee(f)
    /\ \A p : Saved!ValidProtocolFee(p) <=> ValidProtocolFee(p)
    /\ \A f, S : Saved!SumFunctionOnSet(f, S) = SumFunctionOnSet(f, S)
    /\ \A r, i, b : Saved!PoolOwnedLamports(r, i, b) = PoolOwnedLamports(r, i, b)
<1>1. Saved!U64 = U64 /\ Saved!Phases = Phases /\ Saved!Authorities = Authorities
  BY DEF U64, Phases, Authorities, Saved!U64, Saved!Phases, Saved!Authorities
<1>2. \A r : Saved!ValidRatio(r) <=> ValidRatio(r)
  BY DEF ValidRatio, Validate, IsLteOne, Saved!ValidRatio, Saved!Validate, Saved!IsLteOne
<1>3. \A r : Saved!IntoPrecise(r) = IntoPrecise(r)
  BY DEF IntoPrecise, PreciseDiv, PreciseNew,
         Saved!IntoPrecise, Saved!PreciseDiv, Saved!PreciseNew
<1>4. \A f : Saved!ValidFee(f) <=> ValidFee(f)
  BY <1>2, <1>3 DEF ValidFee, Saved!ValidFee
<1>5. \A p : Saved!ValidProtocolFee(p) <=> ValidProtocolFee(p)
  BY <1>2 DEF ValidProtocolFee, Saved!ValidProtocolFee
<1>6. \A f, S : Saved!SumFunctionOnSet(f, S) = SumFunctionOnSet(f, S)
  BY DEF SumFunctionOnSet, FoldFunctionOnSet, MapThenFoldSet,
         Saved!SumFunctionOnSet, Saved!FoldFunctionOnSet, Saved!MapThenFoldSet
<1>7. \A r, i, b : Saved!PoolOwnedLamports(r, i, b) = PoolOwnedLamports(r, i, b)
  BY DEF PoolOwnedLamports, Saved!PoolOwnedLamports
<1> QED BY <1>1, <1>4, <1>5, <1>6, <1>7

LEMMA SaveAccounts ==
    ASSUME AccountsInv, SupplyBacked, before' = Accounts
    PROVE  Saved!AccountsInv' /\ Saved!SupplyBacked'
<1> USE SavedTerms DEF Accounts
<1>1. Saved!AccountsTypeOK'
  BY DEF AccountsInv, AccountsTypeOK, Saved!AccountsInv, Saved!AccountsTypeOK
<1>2. Saved!StakeFunded'
  BY DEF AccountsInv, StakeFunded, Saved!AccountsInv, Saved!StakeFunded
<1>3. Saved!RecordsControlled'
  BY DEF AccountsInv, RecordsControlled, Saved!AccountsInv, Saved!RecordsControlled
<1>4. Saved!RecordsCovered'
  BY DEF AccountsInv, RecordsCovered, Saved!AccountsInv, Saved!RecordsCovered
<1>5. Saved!IncomingIsRecorded'
  BY DEF AccountsInv, IncomingIsRecorded, Saved!AccountsInv, Saved!IncomingIsRecorded
<1>6. Saved!SupplyBacked'
  BY DEF SupplyBacked, Owned, Saved!SupplyBacked, Saved!Owned
<1> QED BY <1>1, <1>2, <1>3, <1>4, <1>5, <1>6 DEF Saved!AccountsInv

LEMMA RestoreAccounts ==
    ASSUME Saved!AccountsInv, Saved!SupplyBacked, Restored
    PROVE  AccountsInv' /\ SupplyBacked'
<1> USE SavedTerms DEF Restored
<1>1. AccountsTypeOK'
  BY DEF AccountsInv, AccountsTypeOK, Saved!AccountsInv, Saved!AccountsTypeOK
<1>2. StakeFunded'
  BY DEF AccountsInv, StakeFunded, Saved!AccountsInv, Saved!StakeFunded
<1>3. RecordsControlled'
  BY DEF AccountsInv, RecordsControlled, Saved!AccountsInv, Saved!RecordsControlled
<1>4. RecordsCovered'
  BY DEF AccountsInv, RecordsCovered, Saved!AccountsInv, Saved!RecordsCovered
<1>5. IncomingIsRecorded'
  BY DEF AccountsInv, IncomingIsRecorded, Saved!AccountsInv, Saved!IncomingIsRecorded
<1>6. SupplyBacked'
  BY DEF SupplyBacked, Owned, Saved!SupplyBacked, Saved!Owned
<1> QED BY <1>1, <1>2, <1>3, <1>4, <1>5, <1>6 DEF AccountsInv

(* Instructions on loans touch the reserves and the loan alone.            *)
LEMMA LedgerStep ==
    ASSUME AccountsInv, reserves' \in Nat, borrowed' \in U64,
           UNCHANGED <<incoming, supply, configVars, recordVars, stakeVars>>
    PROVE  AccountsInv'
<1> USE DEF AccountsInv, configVars, recordVars, stakeVars
<1>1. AccountsTypeOK'
  BY DEF AccountsTypeOK
<1>2. StakeFunded' /\ RecordsControlled' /\ RecordsCovered'
  BY DEF StakeFunded, RecordsControlled, RecordsCovered
<1>3. IncomingIsRecorded'
  BY DEF IncomingIsRecorded
<1> QED BY <1>1, <1>2, <1>3

LEMMA OwnedGrows ==
    ASSUME NEW r \in Nat, NEW i \in Nat, NEW b \in Nat, NEW f \in Nat,
           NEW r2 \in Nat, NEW b2 \in Nat, NEW f2 \in Nat,
           r2 + b2 + f2 >= r + b + f
    PROVE  /\ PoolOwnedLamports(r2, i, b2) \in Nat
           /\ PoolOwnedLamports(r2, i, b2) + f2 >= PoolOwnedLamports(r, i, b) + f
BY DEF PoolOwnedLamports

LEMMA OwnedRepaid ==
    ASSUME NEW r \in Nat, NEW i \in Nat, NEW b \in Nat, NEW f \in Nat,
           NEW r2 \in Nat, r2 >= r + b + f
    PROVE  /\ PoolOwnedLamports(r2, i, 0) \in Nat
           /\ PoolOwnedLamports(r2, i, 0) >= PoolOwnedLamports(r, i, b) + f
BY DEF PoolOwnedLamports

(* What the loan takes from the reserves is on the books before it leaves; *)
(* the lamport that opens the flash account is not.                        *)
LEMMA TakeMoves ==
    ASSUME AccountsInv, LoanInv, NEW amount \in Loans, NEW receiver,
           TakeFlashLoan(amount, receiver)
    PROVE  /\ reserves' \in Nat /\ flashLamports' \in Nat
           /\ Owned' \in Nat /\ Owned' + flashLamports' >= Owned + flashLamports
<1>1. /\ reserves \in Nat /\ incoming \in Nat /\ borrowed \in Nat
      /\ flashLamports \in Nat /\ amount \in Nat
  BY OwnedType, LoansAssumption DEF AccountsInv, LoanInv
<1>2. /\ reserves' \in Nat /\ borrowed' \in Nat /\ flashLamports' \in Nat
      /\ reserves' + borrowed' + flashLamports' >= reserves + borrowed + flashLamports
      /\ incoming' = incoming
  BY <1>1 DEF TakeFlashLoan, PaidOut
<1> QED BY <1>1, <1>2, OwnedGrows DEF Owned

(* The repayment brings back the loan and the flash account, and a fee     *)
(* that the protocol and the referrer get no more than a part of.          *)
LEMMA RepayMoves ==
    ASSUME AccountsInv, LoanInv, NEW referrer, NEW nested, RepayFlashLoan(referrer, nested)
    PROVE  reserves' \in Nat /\ Owned' \in Nat /\ Owned' >= Owned + flashLamports
<1> DEFINE feeAmount  == CeilMul(loanFee, borrowed)
           levy       == FloorMul(protocolFee.fee_ratio, feeAmount)
           toReferrer == IF referrer = Nobody
                         THEN 0
                         ELSE FloorMul(protocolFee.referrer_fee_ratio, levy)
<1>1. /\ reserves \in Nat /\ incoming \in Nat /\ borrowed \in Nat
      /\ flashLamports \in Nat
  BY OwnedType DEF AccountsInv, LoanInv
<1>2. feeAmount \in Nat
  BY U64MaxAssumption DEF RepayFlashLoan, U64
<1>3. reserves' = reserves + borrowed + feeAmount
                    - PaidOut(referrer, toReferrer)
                    - PaidOut(protocolFee.destination, levy - toReferrer)
                    + flashLamports
  BY DEF RepayFlashLoan
<1> HIDE DEF feeAmount
<1>4. levy \in 0 .. feeAmount
  BY <1>2, LevyBounds DEF AccountsInv
<1> HIDE DEF levy
<1>5. toReferrer \in 0 .. levy
  BY <1>2, <1>4, LevyBounds DEF AccountsInv
<1> HIDE DEF toReferrer
<1>6. reserves' \in Nat /\ reserves' >= reserves + borrowed + flashLamports
  BY <1>1, <1>2, <1>3, <1>4, <1>5 DEF PaidOut
<1>7. borrowed' = 0 /\ incoming' = incoming
  BY DEF RepayFlashLoan
<1> QED BY <1>1, <1>6, <1>7, OwnedRepaid DEF Owned

LEMMA TxInvInit == TxInit => TxInv
<1> SUFFICES ASSUME TxInit PROVE TxInv
  OBVIOUS
<1>1. AccountsInv /\ SupplyBacked
  BY IInvInit DEF TxInit, IInv
<1>2. LoanInv
  BY LoanInvInit
<1>3. 0 \in 0 .. MaxRepays
  BY LoansAssumption
<1> QED BY <1>1, <1>2, <1>3, Zenon DEF TxInit, TxInv, BackedButForLoans

(* Pool instructions, the stake accounts' owners, and what happens between *)
(* transactions.                                                           *)
LEMMA TxInvPoolStep ==
    ASSUME AccountsInv, BackedButForLoans, AnyStep, UNCHANGED flashOpen
    PROVE  AccountsInv' /\ BackedButForLoans'
<1>1. AccountsInv'
  BY AccountsStep
<1>2. BackedButForLoans'
  BY <1>1, BackedStep DEF BackedButForLoans, AccountsInv
<1> QED BY <1>1, <1>2

LEMMA TxInvStep == TxInv /\ [TxNext]_allVars => TxInv'
<1> SUFFICES ASSUME TxInv, [TxNext]_allVars PROVE TxInv'
  OBVIOUS
<1> USE DEF TxInv
<1>0. LoanInv'
  BY LoanInvStep
<1> DEFINE SavedSame == UNCHANGED <<running, before>>
<1>1. SavedSame /\ running => /\ Saved!AccountsInv' /\ Saved!SupplyBacked'
                              /\ before'.loanFee \in LoanFees /\ Validate(before'.loanFee)
  <2> SUFFICES ASSUME SavedSame, running
               PROVE  /\ Saved!AccountsInv' /\ Saved!SupplyBacked'
                      /\ before'.loanFee \in LoanFees /\ Validate(before'.loanFee)
    OBVIOUS
  <2>1. Saved!AccountsInv'
    BY DEF Saved!AccountsInv, Saved!AccountsTypeOK, Saved!StakeFunded,
           Saved!RecordsControlled, Saved!RecordsCovered, Saved!IncomingIsRecorded
  <2>2. Saved!SupplyBacked'
    BY DEF Saved!SupplyBacked, Saved!Owned
  <2> QED BY <2>1, <2>2
<1>2. CASE UNCHANGED allVars
  <2>1. AccountsInv' /\ BackedButForLoans' /\ SavedSame
    BY <1>2, AccountsStutter
    DEF allVars, vars, ledgerVars, flashVars, txVars, BackedButForLoans, SupplyBacked, Owned
  <2> QED BY <1>0, <1>1, <1>2, <2>1 DEF allVars, flashVars, txVars
<1>3. CASE Begin
  <2>1. ~flashOpen /\ SupplyBacked
    BY <1>3 DEF Begin, LoanInv, BackedButForLoans
  <2>2. AccountsInv' /\ BackedButForLoans'
    BY <1>3, AccountsStutter
    DEF Begin, vars, ledgerVars, flashVars, BackedButForLoans, SupplyBacked, Owned
  <2>3. Saved!AccountsInv' /\ Saved!SupplyBacked'
    BY <1>3, <2>1, SaveAccounts DEF Begin
  <2>4. before'.loanFee = loanFee
    BY <1>3 DEF Begin, Accounts
  <2> QED BY <1>0, <1>3, <2>2, <2>3, <2>4, LoansAssumption DEF Begin, flashVars
<1>4. CASE running /\ (PoolInstruction \/ StakeOwner) /\ UNCHANGED <<flashVars, txVars>>
  <2>1. AccountsInv' /\ BackedButForLoans'
    BY <1>4, TxInvPoolStep DEF AnyStep, Environment, flashVars
  <2> QED BY <1>0, <1>1, <1>4, <2>1 DEF flashVars, txVars
<1>5. ASSUME running, NEW amount \in Loans, NEW receiver, TakeFlashLoan(amount, receiver)
      PROVE  TxInv'
  <2>1. reserves' \in Nat /\ borrowed' \in U64 /\ flashOpen'
    BY <1>5, TakeMoves DEF TakeFlashLoan
  <2>2. AccountsInv' /\ BackedButForLoans'
    BY <1>5, <2>1, LedgerStep DEF TakeFlashLoan, BackedButForLoans
  <2> QED BY <1>0, <1>1, <1>5, <2>2 DEF TakeFlashLoan, txVars
<1>6. ASSUME running, NEW referrer, NEW nested \in BOOLEAN,
             RepayFlashLoan(referrer, nested)
      PROVE  TxInv'
  <2>1. reserves' \in Nat /\ Owned' \in Nat /\ Owned' >= Owned + flashLamports
    BY <1>6, RepayMoves
  <2>2. Owned \in Nat /\ flashLamports \in Nat /\ flashLamports > 0
    BY <1>6, OwnedType DEF RepayFlashLoan, AccountsInv, LoanInv
  <2>3. borrowed' \in U64
    BY <1>6, U64MaxAssumption DEF RepayFlashLoan, U64
  <2>4. AccountsInv'
    BY <1>6, <2>1, <2>3, LedgerStep DEF RepayFlashLoan
  <2>5. BackedButForLoans'
    BY <2>1, <2>2 DEF BackedButForLoans, SupplyBacked
  <2>6. repaysAhead' \in 0 .. MaxRepays
    BY <1>6, LoansAssumption DEF RepayFlashLoan
  <2> QED BY <1>0, <1>1, <1>6, <2>4, <2>5, <2>6 DEF RepayFlashLoan
<1>7. ASSUME running, NEW r \in LoanFees, SetFlashLoanFee(r)
      PROVE  TxInv'
  <2>1. AccountsInv' /\ BackedButForLoans'
    BY <1>7, AccountsStutter
    DEF SetFlashLoanFee, vars, ledgerVars, BackedButForLoans, SupplyBacked, Owned
  <2> QED BY <1>0, <1>1, <1>7, <2>1 DEF SetFlashLoanFee, txVars
<1>8. CASE Commit
  <2>1. AccountsInv' /\ BackedButForLoans'
    BY <1>8, AccountsStutter
    DEF Commit, vars, ledgerVars, flashVars, BackedButForLoans, SupplyBacked, Owned
  <2> QED BY <1>0, <1>8, <2>1 DEF Commit, flashVars
<1>9. CASE Rollback
  <2>1. AccountsInv' /\ SupplyBacked' /\ loanFee' = before.loanFee
    BY <1>9, RestoreAccounts DEF Rollback, Restored
  <2>2. 0 \in 0 .. MaxRepays
    BY LoansAssumption
  <2> QED BY <1>0, <1>9, <2>1, <2>2, Zenon DEF Rollback, BackedButForLoans
<1>10. CASE Between
  <2>1. CASE Cluster /\ UNCHANGED flashVars
    <3>1. AccountsInv' /\ BackedButForLoans'
      BY <2>1, TxInvPoolStep DEF AnyStep, Environment, flashVars
    <3> QED BY <1>0, <1>10, <2>1, <3>1 DEF Between, flashVars, txVars
  <2>2. ASSUME NEW amount \in Donations, FlashReceives(amount)
        PROVE  TxInv'
    <3>1. AccountsInv' /\ BackedButForLoans'
      BY <2>2, AccountsStutter
      DEF FlashReceives, vars, ledgerVars, BackedButForLoans, SupplyBacked, Owned
    <3> QED BY <1>0, <1>10, <2>2, <3>1 DEF Between, FlashReceives, txVars
  <2> QED BY <1>10, <2>1, <2>2 DEF Between
<1> QED
  BY <1>2, <1>3, <1>4, <1>5, <1>6, <1>7, <1>8, <1>9, <1>10 DEF TxNext, Instruction

(* The invariant of transactions holds in every reachable state.           *)
THEOREM TxInductiveInvariant == TxSpec => []TxInv
BY TxInvInit, TxInvStep, PTL DEF TxSpec

(* Every variable stays in its range; lamports_borrowed never overflows.   *)
THEOREM TxTypeCorrect == TxSpec => []TxTypeOK
<1>1. TxInv => TxTypeOK
  BY DEF TxInv, TxTypeOK, AccountsInv, LoanInv
<1> QED BY <1>1, TxInductiveInvariant, PTL

(* Neither loans nor rollbacks disturb the books: incoming_stake is the    *)
(* sum of the live records also in the middle of a transaction.            *)
THEOREM IncomingOnLoan == TxSpec => []IncomingIsRecorded
<1>1. TxInv => IncomingIsRecorded
  BY DEF TxInv, AccountsInv
<1> QED BY <1>1, TxInductiveInvariant, PTL

(* Nor the pool's hold on the stake accounts it bought, and their worth.   *)
THEOREM RecordsOnLoan == TxSpec => []RecordsControlled /\ []RecordsCovered
<1>1. TxInv => RecordsControlled /\ RecordsCovered
  BY DEF TxInv, AccountsInv
<1> QED BY <1>1, TxInductiveInvariant, PTL

(* A committed transaction leaves every LP token in circulation backed,    *)
(* whatever it borrowed, redeemed and burnt before it repaid.              *)
THEOREM BackedAtRestCorrect == TxSpec => []BackedAtRest
<1>1. TxInv => BackedAtRest
  BY DEF TxInv, LoanInv, BackedButForLoans, BackedAtRest
<1> QED BY <1>1, TxInductiveInvariant, PTL

-----------------------------------------------------------------------------
(* The vault's promise with the reserves partly on loan.                   *)

(* The flash account's lamports are one more deposit.                      *)
LEMMA VaultWithFlashAccount ==
    ASSUME [Vault!Next]_(Vault!vars), UNCHANGED flashLamports, flashLamports \in Nat,
           Owned \in Nat, RecordRent * Cardinality(records) \in Nat
    PROVE  [LentVault!Next]_(LentVault!vars)
<1> DEFINE rent == RecordRent * Cardinality(records)
<1>1. CASE UNCHANGED Vault!vars
  BY <1>1 DEF Vault!vars, LentVault!vars
<1>2. CASE Vault!Mint
  <2>1. LentVault!Mint
    BY <1>2 DEF Vault!Mint, LentVault!Mint, Vault!PriceKept, LentVault!PriceKept
  <2> QED BY <2>1 DEF LentVault!Next
<1>3. CASE Vault!Burn
  <2>1. LentVault!Burn
    BY <1>3 DEF Vault!Burn, LentVault!Burn, Vault!PriceKept, LentVault!PriceKept
  <2> QED BY <2>1 DEF LentVault!Next
<1>4. CASE Vault!Earn
  <2>1. /\ Owned' \in Nat /\ rent' \in Nat /\ Owned' + rent' >= Owned + rent
        /\ supply' = supply
    BY <1>4 DEF Vault!Earn
  <2> HIDE DEF rent
  <2>2. /\ rent' + flashLamports' \in Nat
        /\ Owned' + (rent' + flashLamports') >= Owned + (rent + flashLamports)
    BY <2>1 DEF rent
  <2>3. LentVault!Earn
    BY <2>1, <2>2 DEF LentVault!Earn, rent
  <2> QED BY <2>3 DEF LentVault!Next
<1> QED BY <1>1, <1>2, <1>3, <1>4 DEF Vault!Next

LEMMA DepositKept ==
    ASSUME NEW a \in Nat, NEW a2 \in Nat, NEW f \in Nat, NEW f2 \in Nat, NEW d \in Nat,
           a2 + f2 >= a + f
    PROVE  d + f2 \in Nat /\ a2 + (d + f2) >= a + (d + f)
OBVIOUS

LEMMA LendingStep ==
    ASSUME TxInv, TxInv', [TxNext]_allVars, running => running'
    PROVE  [LentVault!Next]_(LentVault!vars)
<1> USE DEF TxInv
<1> DEFINE rent == RecordRent * Cardinality(records)
<1>1. /\ Owned \in Nat /\ flashLamports \in Nat /\ rent \in Nat
  <2>1. IsFiniteSet(records)
    BY UsersAssumption, FS_Subset DEF AccountsInv, AccountsTypeOK
  <2>2. Cardinality(records) \in Nat
    BY <2>1, FS_CardinalityType
  <2> QED BY <2>2, OwnedType, RentAssumption DEF AccountsInv, LoanInv
<1>2. ASSUME AnyStep, UNCHANGED flashLamports
      PROVE  [LentVault!Next]_(LentVault!vars)
  <2>1. [Vault!Next]_(Vault!vars)
    BY <1>2, VaultStep DEF AccountsInv
  <2> QED BY <1>1, <1>2, <2>1, VaultWithFlashAccount
<1>3. ASSUME UNCHANGED <<reserves, incoming, supply, borrowed, records, flashLamports>>
      PROVE  UNCHANGED LentVault!vars
  BY <1>3 DEF LentVault!vars, Owned
(* The vault sees a loan and its repayment as earnings.                    *)
<1>4. ASSUME Owned' \in Nat, flashLamports' \in Nat, UNCHANGED <<supply, records>>,
             Owned' + flashLamports' >= Owned + flashLamports
      PROVE  LentVault!Next
  <2>1. rent' = rent
    BY <1>4
  <2> HIDE DEF rent
  <2>2. /\ rent + flashLamports' \in Nat
        /\ Owned' + (rent + flashLamports') >= Owned + (rent + flashLamports)
    BY <1>1, <1>4, DepositKept
  <2>3. LentVault!Earn
    BY <1>4, <2>1, <2>2 DEF LentVault!Earn, rent
  <2> QED BY <2>3 DEF LentVault!Next
<1>5. ASSUME NEW amount \in Loans, NEW receiver, TakeFlashLoan(amount, receiver)
      PROVE  LentVault!Next
  BY <1>4, <1>5, TakeMoves DEF TakeFlashLoan, recordVars
<1>6. ASSUME NEW referrer, NEW nested, RepayFlashLoan(referrer, nested)
      PROVE  LentVault!Next
  <2>1. Owned' \in Nat /\ Owned' >= Owned + flashLamports /\ flashLamports' = 0
    BY <1>6, RepayMoves DEF RepayFlashLoan
  <2> QED BY <1>4, <1>6, <2>1 DEF RepayFlashLoan, recordVars
<1>7. ASSUME NEW amount \in Donations, FlashReceives(amount)
      PROVE  LentVault!Next
  <2>1. flashLamports = 0 /\ flashLamports' = amount /\ amount \in Nat
    BY <1>7, AmountsAssumption DEF FlashReceives
  <2>2. Owned' = Owned /\ UNCHANGED <<supply, records>>
    BY <1>7 DEF FlashReceives, vars, ledgerVars, recordVars, Owned
  <2>3. Owned + amount >= Owned + 0
    BY <1>1, <2>1
  <2> QED BY <1>1, <1>4, <2>1, <2>2, <2>3
<1>8. CASE Begin \/ \E r \in LoanFees : SetFlashLoanFee(r)
  BY <1>3, <1>8 DEF Begin, SetFlashLoanFee, vars, ledgerVars, recordVars, flashVars
<1>9. CASE Commit \/ Rollback
  BY <1>9 DEF Commit, Rollback
<1>10. CASE UNCHANGED allVars
  BY <1>3, <1>10 DEF allVars, vars, ledgerVars, recordVars, flashVars
<1> QED
  BY <1>2, <1>5, <1>6, <1>7, <1>8, <1>9, <1>10
  DEF TxNext, Instruction, Between, AnyStep, Environment, flashVars

(* Whatever is done with borrowed lamports before they are repaid, no      *)
(* instruction lowers the value of a share: what is lent still counts, and *)
(* the lamport in the flash account is as safe as the rent of a record.    *)
THEOREM LendingKeepsVaultCorrect == TxSpec => LendingKeepsVault
<1>1. TxInv /\ TxInv' /\ [TxNext]_allVars
        => [(running => running') => [LentVault!Next]_(LentVault!vars)]_allVars
  BY LendingStep
<1> QED BY <1>1, TxInductiveInvariant, PTL DEF TxSpec, LendingKeepsVault

-----------------------------------------------------------------------------
(* What a loan does to the price of a swap.                                *)

LEMMA LoanQuotes ==
    ASSUME AccountsInv, AccountsInv', NEW amount \in Loans, NEW receiver,
           TakeFlashLoan(amount, receiver), NEW s \in OnSale, s \in OnSale'
    PROVE  Quote(s)' >= Quote(s)
<1> DEFINE topUp == RecordTopUp(s)
           stake == lamports[s]
           res   == reserves - topUp
           left  == reserves' - topUp
<1> USE DEF configVars, recordVars, stakeVars
<1>1. /\ fee \in FeeEnum /\ ValidFee(fee) /\ stake \in Nat \ {0} /\ incoming \in Nat
      /\ topUp \in Nat /\ res \in Nat /\ reserves \in Nat
  BY QuoteTerms DEF AccountsInv, AccountsTypeOK
<1>2. RecordTopUp(s)' = topUp
  BY DEF RecordTopUp, TakeFlashLoan
<1>3. left \in Nat /\ reserves' \in Nat
  <2>1. RecordTopUp(s)' <= reserves'
    BY DEF OnSale
  <2>2. reserves' \in Nat
    BY DEF AccountsInv, AccountsTypeOK
  <2> QED BY <1>1, <1>2, <2>1, <2>2
<1>4. reserves' <= reserves
  BY <1>1, LoansAssumption DEF TakeFlashLoan, PaidOut
<1>5. left <= res
  BY <1>1, <1>3, <1>4
<1>6. Quote(s) = ApplyFee(fee, incoming, res, stake)
  BY DEF Quote
<1>7. Quote(s)' = ApplyFee(fee, incoming, left, stake)
  BY <1>2 DEF Quote, TakeFlashLoan
<1> HIDE DEF topUp, stake, res, left
<1>8. incoming + left <= incoming + res
  BY <1>1, <1>3, <1>5
<1>9. ApplyFee(fee, incoming, res, stake) <= ApplyFee(fee, incoming, left, stake)
  BY <1>1, <1>3, <1>8, FeeFollowsShare
<1>10. /\ ApplyFee(fee, incoming, res, stake) \in Int
       /\ ApplyFee(fee, incoming, left, stake) \in Int
  BY <1>1, <1>3, FeeType DEF None
<1> QED BY <1>6, <1>7, <1>9, <1>10

(* Only a loan raises what is borrowed: a rollback restores none.          *)
LEMMA BorrowedByLoan ==
    ASSUME TxInv, [TxNext]_allVars, borrowed' > borrowed
    PROVE  \E amount \in Loans, receiver \in Users \cup {Pool} :
               TakeFlashLoan(amount, receiver)
<1>1. borrowed \in Nat
  BY OwnedType DEF TxInv, AccountsInv
<1>2. CASE Instruction
  <2>1. ASSUME PoolInstruction \/ StakeOwner PROVE FALSE
    BY <1>1, <2>1, OthersLeaveLoans DEF AnyStep, Environment
  <2>2. ASSUME NEW referrer, NEW nested, RepayFlashLoan(referrer, nested) PROVE FALSE
    BY <1>1, <2>2 DEF RepayFlashLoan
  <2>3. ASSUME NEW r, SetFlashLoanFee(r) PROVE FALSE
    BY <1>1, <2>3 DEF SetFlashLoanFee, vars, ledgerVars
  <2> QED BY <1>2, <2>1, <2>2, <2>3 DEF Instruction
<1>3. CASE Begin \/ Commit \/ UNCHANGED allVars
  BY <1>1, <1>3 DEF Begin, Commit, allVars, vars, ledgerVars
<1>4. CASE Rollback
  <2>1. borrowed' = 0
    BY <1>4 DEF Rollback, Restored, TxInv, LoanInv
  <2> QED BY <1>1, <2>1
<1>5. CASE Between
  BY <1>1, <1>5, OthersLeaveLoans
  DEF Between, FlashReceives, AnyStep, Environment, vars, ledgerVars
<1> QED BY <1>2, <1>3, <1>4, <1>5 DEF TxNext

(* Lent lamports are missing from the reserves a swap is priced by, and    *)
(* fewer of them never make it cheaper, whatever is on sale.               *)
THEOREM LoansNeverCheapenSwapsCorrect == TxSpec => LoansNeverCheapenSwaps
<1> DEFINE NotCheaper ==
             borrowed' > borrowed =>
                 \A s \in OnSale : s \in OnSale' => Quote(s)' >= Quote(s)
<1>1. TxInv /\ TxInv' /\ [TxNext]_allVars => [NotCheaper]_allVars
  <2> SUFFICES ASSUME TxInv, TxInv', [TxNext]_allVars PROVE NotCheaper
    BY Zenon
  <2>1. AccountsInv /\ AccountsInv'
    BY DEF TxInv
  <2> QED BY <2>1, BorrowedByLoan, LoanQuotes
<1>2. LoansNeverCheapenSwaps <=> [][NotCheaper]_allVars
  BY DEF LoansNeverCheapenSwaps
<1> HIDE DEF NotCheaper
<1> QED BY <1>1, <1>2, TxInductiveInvariant, PTL DEF TxSpec

=============================================================================
